---- MODULE Spec2Model ----
(***************************************************************************)
(* libhsmp: the host side of the HSMP mailbox protocol (src/libhsmp.c).    *)
(*                                                                         *)
(* Every process that links the library has its own copy of hsmp_data     *)
(* (lib[p]); the threads of a process share it.  A caller (a thread) runs  *)
(* one public operation at a time (th[c] is the call in progress: its      *)
(* arguments, its position in the code, its result).  The processes share  *)
(* the hardware: the flock on /var/lock/hsmp (lockHolder) and the          *)
(* per-socket mailbox registers (mbox), on which the SMU firmware acts as  *)
(* another party.                                                          *)
(***************************************************************************)
EXTENDS Integers, Sequences, FiniteSets, TLC

VARIABLES
    machine,      \* the platform the processes run on (fixed per behaviour)
    euid,         \* euid[p]: effective uid of process p (geteuid())
    lib,          \* lib[p]: hsmp_data of process p
    th,           \* th[c]: the public call caller c is in, or has returned from
    lockHolder,   \* the open file description holding LOCK_EX on /var/lock/hsmp
    mbox          \* mbox[s]: mailbox and port registers of socket s, the SMU's pending work

vars == <<machine, euid, lib, th, lockHolder, mbox>>

----------------------------------------------------------------------------
(* Program constants *)

MAX_SOCKETS == 2
MAX_NBIOS == 8
MAX_CPUS == 256

HSMP_STATUS_NOT_READY == 0
HSMP_STATUS_OK == 1
HSMP_ERR_INVALID_MSG_ID == 254
HSMP_ERR_INVALID_ARG == 255

\* CPU family 19h (Zen3), the first family get_system_info accepts in every
\* build and the first whose xGMI links go down to x2.
FAMILY_0x19 == 25

\* CPU family 17h (Zen, Zen2), accepted in builds with HSMP_FAMILY_0x17.
FAMILY_0x17 == 23

\* enum hsmp_xgmi_width
HSMP_XGMI_WIDTH_X2 == 0
HSMP_XGMI_WIDTH_X8 == 1
HSMP_XGMI_WIDTH_X16 == 2

HSMP_TEST == 1
HSMP_GET_SMU_VER == 2
HSMP_GET_PROTO_VER == 3
HSMP_GET_SOCKET_POWER == 4
HSMP_SET_SOCKET_POWER_LIMIT == 5
HSMP_GET_SOCKET_POWER_LIMIT == 6
HSMP_GET_SOCKET_POWER_LIMIT_MAX == 7
HSMP_SET_BOOST_LIMIT == 8
HSMP_SET_BOOST_LIMIT_SOCKET == 9
HSMP_GET_BOOST_LIMIT == 10
HSMP_GET_PROC_HOT == 11
HSMP_SET_XGMI_LINK_WIDTH == 12
HSMP_SET_DF_PSTATE == 13
HSMP_AUTO_DF_PSTATE == 14
HSMP_GET_FCLK_MCLK == 15
HSMP_GET_CCLK_THROTTLE_LIMIT == 16
HSMP_GET_C0_PERCENT == 17
HSMP_SET_NBIO_DPM_LEVEL == 18
HSMP_GET_DDR_BANDWIDTH == 20

(* Bounds of the model *)

\* hsmp_access.mbox_timeout is 500 in the code (src/libhsmp.c:841); the model
\* polls with a smaller budget, counted down exactly as the code counts it.
MboxTimeout == 2

\* The mailbox data words are 32 bits wide in the hardware; the model keeps
\* words modulo WordMod, enough for every word the library and the modelled
\* firmware produce.
WordMod == 5

\* The file descriptors a process can have open on the lock file at a time
\* (the limit of open files in the real system): open() returns the lowest
\* free one and fails when none is free.
MaxFds == 2

----------------------------------------------------------------------------
(* The processes, the platform and the inputs *)

Procs == {"P1", "P2"}
NoProc == "none"

\* The callers: the main thread of each process, and T2, a second thread of
\* process P1.
Callers == Procs \cup {"T2"}
ProcOf(c) == IF c = "T2" THEN "P1" ELSE c

\* File descriptors, and open file descriptions (flock locks belong to the
\* description open() created: the process and the descriptor naming it).
Fds == 1 .. MaxFds
Desc(proc, fd) == [proc |-> proc, fd |-> fd]
NoDesc == Desc(NoProc, 0)
Sockets == 0 .. (MAX_SOCKETS - 1)
NbioIdx == 0 .. (MAX_NBIOS - 1)
Root == 0
Euids == {Root, 1000}

\* One IOHC device as the bus scan reports it: the bus it sits on, and (known
\* to the hardware only) its socket and its tile number within the socket.
Iohc(bus, socket, tile) == [bus |-> bus, socket |-> socket, tile |-> tile]

OneSocket == <<Iohc(64, 0, 1), Iohc(0, 0, 0), Iohc(192, 0, 3), Iohc(128, 0, 2)>>
TwoSockets ==
    <<Iohc(0, 0, 0), Iohc(96, 0, 2), Iohc(32, 0, 3), Iohc(64, 0, 1),
      Iohc(224, 1, 3), Iohc(128, 1, 0), Iohc(160, 1, 1), Iohc(192, 1, 2)>>

\* Platforms: the IOHC devices in the order the bus scan finds them, the
\* interface version the firmware reports, the CPU family CPUID reports, and
\* what is broken, if anything:
\*   "cpu"      not a supported AMD CPU (get_system_info fails)
\*   "pci"      pci_alloc fails
\*   "devs"     the scan finds a device count other than 4 or 8
\*   "tile"     a tile's bus number register names a bus no table entry hosts
\*   "cpuinfo"  /proc/cpuinfo lacks a field (hsmp_get_cpu_data fails)
Machines ==
    {[iohcs |-> OneSocket, fwver |-> v, family |-> FAMILY_0x19, fault |-> "none"] : v \in 1 .. 4}
    \cup {[iohcs |-> TwoSockets, fwver |-> v, family |-> FAMILY_0x19, fault |-> "none"] : v \in {2, 3}}
    \cup {[iohcs |-> OneSocket, fwver |-> 3, family |-> 6, fault |-> "cpu"]}
    \cup {[iohcs |-> OneSocket, fwver |-> 3, family |-> FAMILY_0x19, fault |-> f] :
             f \in {"pci", "cpuinfo"}}
    \cup {[iohcs |-> <<Iohc(64, 0, 1), Iohc(16, 0, 0), Iohc(192, 0, 3), Iohc(128, 0, 2)>>,
           fwver |-> 3, family |-> FAMILY_0x19, fault |-> "tile"]}
    \cup {[iohcs |-> SubSeq(TwoSockets, 1, 5), fwver |-> 3, family |-> FAMILY_0x19, fault |-> "devs"]}

\* The logical CPUs /proc/cpuinfo lists: CPU 0 on socket 0, CPU 1 on the last
\* socket; CPU 2 and up are not present.
ModelCpus == {0, 1, 2}

\* Data words seen in the mailbox data register (slot 0): the argument a
\* setter writes, the SMU firmware version, the answer to a getter.
TestArg == 1
Words == [arg |-> 1, smuver |-> 2, resp |-> 2]

----------------------------------------------------------------------------
(* The public operations: for each, the message id hsmp_enter checks, what  *)
(* the operation validates after hsmp_enter, and the message it sends.      *)
(*   target: "none" (no exchange), "socket" (socket_id argument), "cpu"     *)
(*           (socket looked up in the CPU table), "all" (loop over the      *)
(*           present sockets), "bus" (socket of the NBIO hosting a bus),    *)
(*           "idx" (hsmp_next_bus: a table index, no exchange)              *)
(*   ptr:    the operation rejects a null output pointer                    *)
(*   enum:   the operation rejects a malformed enumerated value             *)

Op(enter, target, ptr, enum, msg, nargs, rsz) ==
    [enter |-> enter, target |-> target, ptr |-> ptr, enum |-> enum,
     msg |-> msg, nargs |-> nargs, rsz |-> rsz]

OpTable ==
    [hsmp_smu_fw_version |-> Op(HSMP_GET_SMU_VER, "none", TRUE, FALSE, 0, 0, 0),
     hsmp_interface_version |-> Op(HSMP_GET_PROTO_VER, "none", TRUE, FALSE, 0, 0, 0),
     hsmp_socket_power |->
        Op(HSMP_GET_SOCKET_POWER, "socket", TRUE, FALSE, HSMP_GET_SOCKET_POWER, 0, 1),
     hsmp_set_socket_power_limit |->
        Op(HSMP_SET_SOCKET_POWER_LIMIT, "socket", FALSE, FALSE,
           HSMP_SET_SOCKET_POWER_LIMIT, 1, 0),
     hsmp_socket_power_limit |->
        Op(HSMP_GET_SOCKET_POWER_LIMIT, "socket", TRUE, FALSE,
           HSMP_GET_SOCKET_POWER_LIMIT, 0, 1),
     hsmp_socket_max_power_limit |->
        Op(HSMP_GET_SOCKET_POWER_LIMIT_MAX, "socket", TRUE, FALSE,
           HSMP_GET_SOCKET_POWER_LIMIT_MAX, 0, 1),
     hsmp_set_cpu_boost_limit |->
        Op(HSMP_SET_BOOST_LIMIT, "cpu", FALSE, FALSE, HSMP_SET_BOOST_LIMIT, 1, 0),
     hsmp_set_socket_boost_limit |->
        Op(HSMP_SET_BOOST_LIMIT_SOCKET, "socket", FALSE, FALSE,
           HSMP_SET_BOOST_LIMIT_SOCKET, 1, 0),
     hsmp_set_system_boost_limit |->
        Op(HSMP_SET_BOOST_LIMIT_SOCKET, "all", FALSE, FALSE,
           HSMP_SET_BOOST_LIMIT_SOCKET, 1, 0),
     hsmp_cpu_boost_limit |->
        Op(HSMP_GET_BOOST_LIMIT, "cpu", TRUE, FALSE, HSMP_GET_BOOST_LIMIT, 1, 1),
     hsmp_proc_hot_status |->
        Op(HSMP_GET_PROC_HOT, "socket", TRUE, FALSE, HSMP_GET_PROC_HOT, 0, 1),
     hsmp_set_xgmi_width |->
        Op(HSMP_SET_XGMI_LINK_WIDTH, "all", FALSE, TRUE, HSMP_SET_XGMI_LINK_WIDTH, 1, 0),
     hsmp_set_xgmi_auto |->
        Op(HSMP_SET_XGMI_LINK_WIDTH, "all", FALSE, FALSE, HSMP_SET_XGMI_LINK_WIDTH, 1, 0),
     hsmp_set_data_fabric_pstate |->
        Op(HSMP_AUTO_DF_PSTATE, "socket", FALSE, TRUE, HSMP_SET_DF_PSTATE, 1, 0),
     hsmp_fabric_clocks |->
        Op(HSMP_GET_FCLK_MCLK, "socket", TRUE, FALSE, HSMP_GET_FCLK_MCLK, 0, 2),
     hsmp_core_clock_max_frequency |->
        Op(HSMP_GET_CCLK_THROTTLE_LIMIT, "socket", TRUE, FALSE,
           HSMP_GET_CCLK_THROTTLE_LIMIT, 0, 1),
     hsmp_c0_residency |->
        Op(HSMP_GET_C0_PERCENT, "socket", TRUE, FALSE, HSMP_GET_C0_PERCENT, 0, 1),
     hsmp_set_nbio_pstate |->
        Op(HSMP_SET_NBIO_DPM_LEVEL, "bus", FALSE, TRUE, HSMP_SET_NBIO_DPM_LEVEL, 1, 0),
     hsmp_next_bus |-> Op(0, "idx", TRUE, FALSE, 0, 0, 0),
     hsmp_ddr_bandwidths |->
        Op(HSMP_GET_DDR_BANDWIDTH, "socket", TRUE, FALSE, HSMP_GET_DDR_BANDWIDTH, 0, 1)]

Ops == DOMAIN OpTable

\* One operation of each shape and of each interface version.
SomeOps ==
    {"hsmp_interface_version", "hsmp_socket_power", "hsmp_set_socket_boost_limit",
     "hsmp_set_cpu_boost_limit", "hsmp_cpu_boost_limit", "hsmp_set_system_boost_limit",
     "hsmp_set_xgmi_width", "hsmp_set_data_fabric_pstate", "hsmp_set_nbio_pstate",
     "hsmp_next_bus", "hsmp_ddr_bandwidths"}

\* The values a caller passes as the target of an operation.
TargetIds(target) ==
    CASE target = "socket" -> {-1, 0, 1, 2}
      [] target = "cpu"    -> {-1, 0, 1, 2, MAX_CPUS, MAX_CPUS + 1}
      [] target = "bus"    -> {0, 255}
      [] target = "idx"    -> {-1, 0, 3, 7, 8}
      [] OTHER             -> {0}

\* The u32 value a caller passes to an operation that takes one.
TakesValue(op) ==
    op \in {"hsmp_set_socket_power_limit", "hsmp_set_cpu_boost_limit",
            "hsmp_set_socket_boost_limit", "hsmp_set_system_boost_limit"}

\* Boost limits in MHz: an ordinary limit, the value that removes the limit
\* (0xFFFF), and the first value that does not fit 16 bits.
BoostLimits == {Words.arg, 2 ^ 16 - 1, 2 ^ 16}

\* Enumerated arguments: a value in range ("ok": a data fabric P-state 0..3,
\* HSMP_NBIO_PSTATE_AUTO, widths x8..x16), one out of range ("bad": for the
\* widths a minimum above the maximum), and HSMP_DF_PSTATE_AUTO ("auto"),
\* HSMP_NBIO_PSTATE_P0 ("p0"), widths x2..x16 ("low"), a maximum above x16
\* ("high").
EnumVals(op) ==
    IF ~OpTable[op].enum THEN {"ok"}
    ELSE IF op = "hsmp_set_data_fabric_pstate" THEN {"ok", "auto", "bad"}
    ELSE IF op = "hsmp_set_nbio_pstate" THEN {"ok", "p0", "bad"}
    ELSE {"ok", "bad", "low", "high"}

\* What a read past the end (or before the start) of hsmp_data.cpus may find.
Garbage ==
    {[valid |-> 0, socket_id |-> 0, apicid |-> 0],
     [valid |-> 1, socket_id |-> 0, apicid |-> 25],
     [valid |-> 1, socket_id |-> 3, apicid |-> 25],
     [valid |-> 1, socket_id |-> 1, apicid |-> -1]}

----------------------------------------------------------------------------
(* hsmp_data and the functions that read it *)

\* One entry of hsmp_data.nbios; dev is the position of the device in the
\* scan list, NullDev for a null pointer.
NullDev == 0
ClearedNbio == [dev |-> NullDev, id |-> 0, bus_base |-> 255, bus_limit |-> 0]

hsmp_clear_nbio_table == [i \in NbioIdx |-> ClearedNbio]

\* strerror of the C library, for the errno values the library sets and for 0.
strerror(errno_val) ==
    CASE errno_val = "0"         -> "Success"
      [] errno_val = "EPERM"     -> "Operation not permitted"
      [] errno_val = "EIO"       -> "Input/output error"
      [] errno_val = "EINVAL"    -> "Invalid argument"
      [] errno_val = "ENOTSUP"   -> "Operation not supported"
      [] errno_val = "ETIMEDOUT" -> "Connection timed out"

\* Mutant: hsmp_strerror without its test for -1.
hsmp_strerror_Switch(err, errno_val) ==
    CASE err = 0                       -> "Success"
      [] err = HSMP_ERR_INVALID_MSG_ID -> "Invalid HSMP message ID"
      [] err = HSMP_ERR_INVALID_ARG    -> "Invalid HSMP argument"
      [] OTHER                         -> "Unknown error"

\* hsmp_strerror: -1 is an errno failure, the rest goes through the switch.
hsmp_strerror(err, errno_val) ==
    IF err = -1 THEN strerror(errno_val)
    ELSE CASE err = 0                       -> "Success"
           [] err = HSMP_ERR_INVALID_MSG_ID -> "Invalid HSMP message ID"
           [] err = HSMP_ERR_INVALID_ARG    -> "Invalid HSMP argument"
           [] OTHER                         -> "Unknown error"

\* msg_id_supported: the highest message id of each interface version.
msg_id_supported(ver, msg_id) ==
    CASE ver = 1 -> msg_id <= HSMP_GET_C0_PERCENT
      [] ver = 2 -> msg_id <= HSMP_SET_NBIO_DPM_LEVEL
      [] ver = 3 -> msg_id <= HSMP_GET_DDR_BANDWIDTH
      [] OTHER   -> FALSE

\* Mutant: a socket id out of range wraps around instead of being refused.
socket_id_to_dev_Wrap(nbios, socket_id) ==
    nbios[(socket_id % MAX_SOCKETS) * 4].dev

\* socket_id_to_dev: the device of the socket's first table entry.
socket_id_to_dev(nbios, socket_id) ==
    IF socket_id < 0 \/ socket_id >= MAX_SOCKETS
    THEN NullDev
    ELSE nbios[socket_id * 4].dev

\* bus_to_nbio: the first table index whose range holds the bus, or -1.
bus_to_nbio(nbios, bus) ==
    LET hit == {idx \in NbioIdx :
                   bus >= nbios[idx].bus_base /\ bus <= nbios[idx].bus_limit}
    IN  IF hit = {} THEN -1 ELSE CHOOSE idx \in hit : \A k \in hit : idx <= k

\* cpu_apicid and cpu_socket_id read the same entry: cpus[cpu] when cpu is an
\* index of the table, nothing when cpu > MAX_CPUS, and whatever lies next to
\* the table (g) for the indexes the check lets through (cpu < 0, cpu = MAX_CPUS).
CpuEntry(cpus, cpu, g) ==
    IF cpu > MAX_CPUS THEN [valid |-> 0, socket_id |-> 0, apicid |-> 0]
    ELSE IF cpu \in ModelCpus THEN cpus[cpu]
    ELSE IF cpu \in 0 .. (MAX_CPUS - 1) THEN [valid |-> 0, socket_id |-> 0, apicid |-> 0]
    ELSE g

----------------------------------------------------------------------------
(* hsmp_setup_nbios: the table built from the scan list *)

\* The scan loop: entry k holds the k-th matching device and its bus.
ScanTable(iohcs) ==
    [i \in NbioIdx |->
        IF i < Len(iohcs)
        THEN [ClearedNbio EXCEPT !.dev = i + 1, !.bus_base = iohcs[i + 1].bus]
        ELSE ClearedNbio]

\* Mutant: the sort exchanges the bus_base of two entries, not their devices.
SwapNbio_BaseOnly(nb, i, j) ==
    [nb EXCEPT ![i] = [@ EXCEPT !.bus_base = nb[j].bus_base],
               ![j] = [@ EXCEPT !.bus_base = nb[i].bus_base]]

\* The sort exchanges dev and bus_base of entries i and j.
SwapNbio(nb, i, j) ==
    [nb EXCEPT ![i] = [@ EXCEPT !.dev = nb[j].dev, !.bus_base = nb[j].bus_base],
               ![j] = [@ EXCEPT !.dev = nb[i].dev, !.bus_base = nb[i].bus_base]]

RECURSIVE SortInner(_, _, _, _)
SortInner(nb, i, j, n) ==
    IF j >= n THEN nb
    ELSE SortInner(IF nb[j].bus_base < nb[i].bus_base THEN SwapNbio(nb, i, j) ELSE nb,
                   i, j + 1, n)

RECURSIVE SortNbios(_, _, _)
SortNbios(nb, i, n) ==
    IF i >= n - 1 THEN nb ELSE SortNbios(SortInner(nb, i, i + 1, n), i + 1, n)

\* Mutant: an entry's range ends on the next entry's base.
BusLimits_Overlap(nb, n) ==
    [i \in NbioIdx |->
        IF i < n - 1 THEN [nb[i] EXCEPT !.bus_limit = nb[i + 1].bus_base]
        ELSE IF i = n - 1 THEN [nb[i] EXCEPT !.bus_limit = 255]
        ELSE nb[i]]

\* bus_limit, in u8 arithmetic.
BusLimits(nb, n) ==
    [i \in NbioIdx |->
        IF i < n - 1 THEN [nb[i] EXCEPT !.bus_limit = (nb[i + 1].bus_base - 1) % 256]
        ELSE IF i = n - 1 THEN [nb[i] EXCEPT !.bus_limit = 255]
        ELSE nb[i]]

\* smu_read of IOHCMISC[k] NB_BUS_NUM_CNTL through device dev: the bus of tile
\* k in the socket of that device (low byte of the register).
TileBus(m, dev, k) ==
    IF m.fault = "tile" /\ k = 0 THEN 0
    ELSE LET me == m.iohcs[dev]
             t  == CHOOSE x \in 1 .. Len(m.iohcs) :
                       m.iohcs[x].socket = me.socket /\ m.iohcs[x].tile = k
         IN  m.iohcs[t].bus

\* The last loop: entry i reads tile (i & 3) and stores the id in the entry
\* hosting the bus read; [ok |-> FALSE] when a bus maps to no entry.
RECURSIVE TileIds(_, _, _, _)
TileIds(m, nb, i, n) ==
    IF i >= n THEN [ok |-> TRUE, nbios |-> nb]
    ELSE LET idx == bus_to_nbio(nb, TileBus(m, nb[i].dev, i % 4))
         IN  IF idx = -1 THEN [ok |-> FALSE, nbios |-> nb]
             ELSE TileIds(m, [nb EXCEPT ![idx].id = i % 4], i + 1, n)

\* Mutant: only an empty scan or more than MAX_NBIOS devices is refused.
hsmp_setup_nbios_AnyCount(m) ==
    LET n == Len(m.iohcs)
    IN  IF n > MAX_NBIOS \/ n = 0
        THEN [ok |-> FALSE, nbios |-> hsmp_clear_nbio_table]
        ELSE LET r == TileIds(m, BusLimits(SortNbios(ScanTable(m.iohcs), 0, n), n), 0, n)
             IN  IF r.ok THEN r ELSE [ok |-> FALSE, nbios |-> hsmp_clear_nbio_table]

\* hsmp_setup_nbios as a whole: the table, or failure (after which
\* hsmp_cleanup_nbios leaves the cleared table).
hsmp_setup_nbios(m) ==
    LET n == Len(m.iohcs)
    IN  IF n > MAX_NBIOS \/ n = 0 \/ n % (MAX_NBIOS \div 2) # 0
        THEN [ok |-> FALSE, nbios |-> hsmp_clear_nbio_table]
        ELSE LET r == TileIds(m, BusLimits(SortNbios(ScanTable(m.iohcs), 0, n), n), 0, n)
             IN  IF r.ok THEN r ELSE [ok |-> FALSE, nbios |-> hsmp_clear_nbio_table]

NoCpus == [c \in ModelCpus |-> [valid |-> 0, socket_id |-> 0, apicid |-> 0]]

\* One line of /proc/cpuinfo: what it starts with, and the number read_id
\* finds after its colon.
Line(key, val) == [key |-> key, val |-> val]

\* The record of one processor: which of its lines are there.
CpuRecord(cpu, socket_id, apicid, fields) ==
    <<Line("processor", cpu), Line("vendor_id", 0)>>
    \o (IF "physical id" \in fields THEN <<Line("physical id", socket_id)>> ELSE <<>>)
    \o <<Line("siblings", 0)>>
    \o (IF "apicid" \in fields THEN <<Line("apicid", apicid)>> ELSE <<>>)
    \o <<Line("initial apicid", apicid), Line("", 0)>>

\* The socket and the APIC id of the logical CPUs of a platform.
CpuSocket(m, cpu) == IF cpu = 1 THEN (Len(m.iohcs) \div 4) - 1 ELSE 0
CpuApicid(m, cpu) == cpu

\* /proc/cpuinfo of a platform: the file the platform description gives, or
\* the records of CPU 0 and CPU 1, the last one without its apicid line on a
\* platform with the "cpuinfo" fault.
Cpuinfo(m) ==
    IF "cpuinfo" \in DOMAIN m THEN m.cpuinfo
    ELSE CpuRecord(0, CpuSocket(m, 0), CpuApicid(m, 0), {"physical id", "apicid"})
         \o CpuRecord(1, CpuSocket(m, 1), CpuApicid(m, 1),
                      IF m.fault = "cpuinfo" THEN {"physical id"}
                      ELSE {"physical id", "apicid"})

\* The loops of hsmp_get_cpu_data from line i on; want is the line the code
\* is looking for: "processor" in the outer loop, "physical id" and "apicid"
\* in the two inner loops, which read on to the end of the file.
RECURSIVE CpuLoad(_, _, _, _, _)
CpuLoad(lines, i, want, cpu_id, cpus) ==
    IF i > Len(lines)
    THEN [err |-> IF want = "processor" THEN 0 ELSE -1, cpus |-> cpus]
    ELSE IF lines[i].key # want THEN CpuLoad(lines, i + 1, want, cpu_id, cpus)
    ELSE CASE want = "processor" ->
                 IF lines[i].val >= MAX_CPUS THEN [err |-> 0, cpus |-> cpus]
                 ELSE CpuLoad(lines, i + 1, "physical id", lines[i].val, cpus)
           [] want = "physical id" ->
                 CpuLoad(lines, i + 1, "apicid", cpu_id,
                         [cpus EXCEPT ![cpu_id].socket_id = lines[i].val])
           [] OTHER ->
                 CpuLoad(lines, i + 1, "processor", cpu_id,
                         [cpus EXCEPT ![cpu_id].apicid = lines[i].val,
                                      ![cpu_id].valid = 1])

\* hsmp_get_cpu_data: the CPU table read from /proc/cpuinfo into a zeroed
\* hsmp_data.
hsmp_get_cpu_data(m) == CpuLoad(Cpuinfo(m), 1, "processor", 0, NoCpus).cpus

----------------------------------------------------------------------------
(* A public call: hsmp_enter, the operation's own checks, its exchanges *)

Pair(t, l) == [t |-> t, l |-> l]

Msg(num, nargs, rsz, arg) == [num |-> num, nargs |-> nargs, rsz |-> rsz, arg |-> arg]
NoMsg == Msg(0, 0, 0, 0)

\* The statics of src/nbio.c and num_sockets of src/nbio.h before setup_nbios
\* (zeroed): nbios is the calloc'ed array, indexed from 0; pacc is the PCI
\* access context of find_nbio_devs ("none", "live", or "freed" after
\* pci_cleanup); i is the index of setup_nbios's last loop; assigned holds the
\* array positions that loop has written.
NoNbio ==
    [nbios |-> <<>>, num_nbios |-> 0, nbios_per_socket |-> 0, num_sockets |-> 0,
     pacc |-> "none", i |-> 0, assigned |-> {}]

\* hsmp_data before the first call (static storage is zeroed); fds and nb are
\* not fields of hsmp_data: the descriptors the process has open on the lock
\* file, and the statics of src/nbio.c.
InitLib ==
    [initialized |-> 0, hsmp_disabled |-> 0, hsmp_proto_ver |-> 0, smu_firmware |-> 0,
     nbios |-> [i \in NbioIdx |-> [dev |-> NullDev, id |-> 0, bus_base |-> 0, bus_limit |-> 0]],
     x86_family |-> 0, cpus |-> NoCpus, pacc |-> FALSE, lock_fd |-> 0, fds |-> {},
     nb |-> NoNbio]

\* A caller outside the library.  The fields of a call: its arguments (op,
\* tgt, ptr, en, val: a u32 value, min_width and max_width: the xGMI widths,
\* strerr and errno_val: the arguments of hsmp_strerror, text: its result),
\* what a stray read of the CPU table finds (g), hsmp_data as the call found
\* it (init0, dis0), what the call has done to the hardware so far (scanned:
\* bus scan, smn: tile registers, locked: lock taken, mboxacc: mailbox
\* register accessed, timedout: a poll loop ran out, sent: doorbell writes
\* for the operation's own message, applied: the sockets whose SMU answered
\* OK to it, status: the last mailbox status read, ans: the caller whose
\* doorbell that status answered, log: the mailbox register
\* accesses of the exchange in progress), the locals of hsmp_probe and
\* hsmp_send_message, and what the caller gets (ret, errno, out, and the two
\* further outputs of hsmp_ddr_bandwidths).  errno
\* "unset" stands for the value errno had before the call: no code of the
\* call has assigned it.
InitTh ==
    [pc |-> "idle", op |-> "hsmp_next_bus", tgt |-> 0, ptr |-> TRUE, en |-> "ok",
     val |-> 0, min_width |-> 0, max_width |-> 0,
     strerr |-> 0, errno_val |-> "0", text |-> "",
     g |-> [valid |-> 0, socket_id |-> 0, apicid |-> 0],
     init0 |-> 0, dis0 |-> 0,
     scanned |-> FALSE, smn |-> FALSE, locked |-> FALSE, mboxacc |-> FALSE,
     timedout |-> FALSE, sent |-> 0, applied |-> {}, status |-> HSMP_STATUS_NOT_READY,
     ans |-> NoProc, log |-> <<>>,
     ctx |-> "op", sock |-> 0, root_dev |-> NullDev, msg |-> NoMsg, found |-> FALSE,
     arg_num |-> 0, timeout |-> 0,
     err |-> 0, resp |-> 0, ret |-> 0, errno |-> "unset", outset |-> FALSE, out |-> 0,
     utilized_bw |-> 0, utilized_pct |-> 0]

\* The call returns r to its caller with errno e; the locals of the call die.
Ret(t, r, e) ==
    [t EXCEPT !.pc = "done", !.ret = r, !.errno = e,
              !.ctx = "op", !.sock = 0, !.root_dev = NullDev, !.msg = NoMsg, !.found = FALSE,
              !.arg_num = 0, !.timeout = 0, !.err = 0, !.resp = 0, !.log = <<>>,
              !.ans = NoProc]

\* Mutant: any failure of hsmp_init disables the library.
InitFail_Disable(t, l, e) ==
    Pair(Ret(t, -1, e), [l EXCEPT !.nbios = hsmp_clear_nbio_table, !.pacc = FALSE,
                                  !.hsmp_disabled = 1])

\* Mutant: hsmp_init fails without hsmp_cleanup_nbios.
InitFail_NoCleanup(t, l, e) == Pair(Ret(t, -1, e), l)

\* hsmp_cleanup_nbios, then -1 (the failure paths of hsmp_init).
InitFail(t, l, e) ==
    Pair(Ret(t, -1, e), [l EXCEPT !.nbios = hsmp_clear_nbio_table, !.pacc = FALSE])

\* a | b on non-negative integers.
RECURSIVE BitOr(_, _)
BitOr(a, b) ==
    IF a = 0 THEN b
    ELSE IF b = 0 THEN a
    ELSE (IF a % 2 = 1 \/ b % 2 = 1 THEN 1 ELSE 0) + 2 * BitOr(a \div 2, b \div 2)

\* Mutant: every family's links go down to x2.
XgmiMin_X2(x86_family) == HSMP_XGMI_WIDTH_X2

\* The narrowest xGMI link width of a CPU family.
XgmiMin(x86_family) ==
    IF x86_family >= FAMILY_0x19 THEN HSMP_XGMI_WIDTH_X2 ELSE HSMP_XGMI_WIDTH_X8

\* msg.args[0] as each operation computes it; with the APIC ids and values of
\* the model every word stays below 2^31, so no shift or | wraps.
OpArg(t, l) ==
    CASE t.op = "hsmp_set_cpu_boost_limit" ->
            BitOr(CpuEntry(l.cpus, t.tgt, t.g).apicid * 2 ^ 16, t.val)
      [] t.op = "hsmp_cpu_boost_limit" -> CpuEntry(l.cpus, t.tgt, t.g).apicid
      [] t.op \in {"hsmp_set_xgmi_width", "hsmp_set_xgmi_auto"} ->
            BitOr(t.min_width * 2 ^ 8, t.max_width)
      [] t.op = "hsmp_set_nbio_pstate" ->
            BitOr(l.nbios[bus_to_nbio(l.nbios, t.tgt)].id * 2 ^ 16,
                  BitOr(2 * 2 ^ 8, IF t.en = "p0" THEN 2 ELSE 0))
      [] t.op = "hsmp_set_data_fabric_pstate" -> Words.arg
      [] OTHER -> t.val

\* The message an operation sends.
OpMsg(t, l) ==
    LET o == OpTable[t.op]
    IN  IF t.op = "hsmp_set_data_fabric_pstate" /\ t.en = "auto"
        THEN Msg(HSMP_AUTO_DF_PSTATE, 0, 0, 0)
        ELSE Msg(o.msg, o.nargs, o.rsz, IF o.nargs > 0 THEN OpArg(t, l) ELSE 0)

RECURSIVE hsmp_send_message(_, _, _, _, _)
RECURSIVE SendReturn(_, _)
RECURSIVE Dispatch(_, _)

\* hsmp_send_message up to hsmp_lock: a socket without device is EINVAL.
hsmp_send_message(t, l, socket_id, msg, ctx) ==
    LET t1 == [t EXCEPT !.ctx = ctx, !.sock = socket_id, !.msg = msg,
                        !.root_dev = socket_id_to_dev(l.nbios, socket_id),
                        !.arg_num = 0, !.log = <<>>]
    IN  IF socket_id_to_dev(l.nbios, socket_id) = NullDev
        THEN SendReturn([t1 EXCEPT !.err = -1, !.errno = "EINVAL"], l)
        ELSE Pair([t1 EXCEPT !.pc = "lock"], l)

\* The head of hsmp_probe's loop over the sockets; after the loop hsmp_init
\* sets initialized and hsmp_enter goes on to its message id check.
ProbeLoop(t, l, socket_id) ==
    IF socket_id < MAX_SOCKETS /\ socket_id_to_dev(l.nbios, socket_id) # NullDev
    THEN hsmp_send_message(t, l, socket_id, Msg(HSMP_TEST, 1, 1, TestArg), "probe_test")
    ELSE Dispatch(t, [l EXCEPT !.initialized = 1])

\* Mutant: hsmp_probe does not compare the self-test's response.
ProbeReturn_NoEcho(t, l) ==
    IF t.err # 0 THEN InitFail(t, l, "ENOTSUP")
    ELSE CASE t.ctx = "probe_test" ->
                IF ~t.found
                THEN hsmp_send_message(t, l, t.sock, Msg(HSMP_GET_SMU_VER, 0, 1, 0),
                                       "probe_smu")
                ELSE ProbeLoop(t, l, t.sock + 1)
           [] t.ctx = "probe_smu" ->
                hsmp_send_message(t, [l EXCEPT !.smu_firmware = t.resp], t.sock,
                                  Msg(HSMP_GET_PROTO_VER, 0, 1, 0), "probe_ver")
           [] OTHER ->
                ProbeLoop([t EXCEPT !.found = TRUE],
                          [l EXCEPT !.hsmp_proto_ver = t.resp], t.sock + 1)

\* hsmp_probe after each of its exchanges.
ProbeReturn(t, l) ==
    IF t.err # 0 THEN InitFail(t, l, "ENOTSUP")
    ELSE CASE t.ctx = "probe_test" ->
                IF t.resp # t.msg.arg + 1 THEN InitFail(t, l, "ENOTSUP")
                ELSE IF ~t.found
                THEN hsmp_send_message(t, l, t.sock, Msg(HSMP_GET_SMU_VER, 0, 1, 0),
                                       "probe_smu")
                ELSE ProbeLoop(t, l, t.sock + 1)
           [] t.ctx = "probe_smu" ->
                hsmp_send_message(t, [l EXCEPT !.smu_firmware = t.resp], t.sock,
                                  Msg(HSMP_GET_PROTO_VER, 0, 1, 0), "probe_ver")
           [] OTHER ->
                ProbeLoop([t EXCEPT !.found = TRUE],
                          [l EXCEPT !.hsmp_proto_ver = t.resp], t.sock + 1)

\* hsmp_ddr_bandwidths takes its three results from the response word:
\* result >> 20, (result >> 8) & 0xFFFFF, result & 0xFF.
DdrBandwidths(result) ==
    [max_bw |-> result \div 2 ^ 20,
     utilized_bw |-> (result \div 2 ^ 8) % 2 ^ 20,
     utilized_pct |-> result % 2 ^ 8]

\* A getter stores the response in the caller's variables (out is the first,
\* or only, of them).
Output(t) ==
    IF t.op = "hsmp_ddr_bandwidths"
    THEN [t EXCEPT !.outset = TRUE, !.out = DdrBandwidths(t.resp).max_bw,
                   !.utilized_bw = DdrBandwidths(t.resp).utilized_bw,
                   !.utilized_pct = DdrBandwidths(t.resp).utilized_pct]
    ELSE [t EXCEPT !.outset = TRUE, !.out = t.resp]

\* Mutant: the loop over the sockets goes on after a failure.
OpReturn_Continue(t, l) ==
    LET o == OpTable[t.op]
        ok == IF t.err = 0 THEN [t EXCEPT !.applied = @ \cup {t.sock}] ELSE t
    IN  IF o.target = "all" /\ t.sock + 1 < MAX_SOCKETS
           /\ socket_id_to_dev(l.nbios, t.sock + 1) # NullDev
        THEN hsmp_send_message(ok, l, t.sock + 1, t.msg, "op")
        ELSE IF t.err # 0 THEN Pair(Ret(t, t.err, t.errno), l)
        ELSE IF o.rsz > 0
        THEN Pair(Ret(Output(ok), 0, t.errno), l)
        ELSE Pair(Ret(ok, 0, t.errno), l)

\* A public operation after its exchange: a failure is returned as it is, a
\* loop over the sockets goes on, a getter stores the response.
OpReturn(t, l) ==
    LET o == OpTable[t.op]
        ok == [t EXCEPT !.applied = @ \cup {t.sock}]
    IN  IF t.err # 0 THEN Pair(Ret(t, t.err, t.errno), l)
        ELSE IF o.target = "all" /\ t.sock + 1 < MAX_SOCKETS
                /\ socket_id_to_dev(l.nbios, t.sock + 1) # NullDev
        THEN hsmp_send_message(ok, l, t.sock + 1, t.msg, "op")
        ELSE IF o.rsz > 0
        THEN Pair(Ret(Output(ok), 0, t.errno), l)
        ELSE Pair(Ret(ok, 0, t.errno), l)

SendReturn(t, l) == IF t.ctx = "op" THEN OpReturn(t, l) ELSE ProbeReturn(t, l)

\* What each operation checks between hsmp_enter and its first exchange.
Validate(t, l) ==
    LET o == OpTable[t.op]
        e == CpuEntry(l.cpus, t.tgt, t.g)
        idx == bus_to_nbio(l.nbios, t.tgt)
        inval == Pair(Ret(t, -1, "EINVAL"), l)
    IN  IF o.ptr /\ ~t.ptr
        THEN Pair(Ret(t, -1, IF o.target = "idx" THEN t.errno ELSE "EINVAL"), l)
        ELSE CASE o.target = "none" ->
                    Pair(Ret([t EXCEPT !.outset = TRUE,
                                       !.out = IF t.op = "hsmp_interface_version"
                                               THEN l.hsmp_proto_ver
                                               ELSE l.smu_firmware], 0, t.errno), l)
               [] o.target = "idx" ->
                    IF t.tgt < 0 \/ t.tgt >= MAX_NBIOS
                    THEN Pair(Ret(t, -1, t.errno), l)
                    ELSE IF l.nbios[t.tgt].dev = NullDev
                    THEN Pair(Ret(t, -1, t.errno), l)
                    ELSE Pair(Ret([t EXCEPT !.outset = TRUE,
                                            !.out = l.nbios[t.tgt].bus_base],
                                  t.tgt + 1, t.errno), l)
               [] o.target = "cpu" ->
                    IF e.valid = 0 \/ e.apicid < 0 \/ e.socket_id < 0 THEN inval
                    ELSE hsmp_send_message(t, l, e.socket_id, OpMsg(t, l), "op")
               [] o.target = "bus" ->
                    IF idx = -1 \/ t.en = "bad" THEN inval
                    ELSE hsmp_send_message(t, l, IF idx >= MAX_NBIOS \div 2 THEN 1 ELSE 0,
                                           OpMsg(t, l), "op")
               [] o.target = "socket" ->
                    IF t.en = "bad" THEN inval
                    ELSE hsmp_send_message(t, l, t.tgt, OpMsg(t, l), "op")
               [] OTHER ->
                    IF /\ o.msg = HSMP_SET_XGMI_LINK_WIDTH
                       /\ \/ t.min_width < XgmiMin(l.x86_family)
                          \/ t.min_width > HSMP_XGMI_WIDTH_X16
                          \/ t.max_width < t.min_width
                          \/ t.max_width > HSMP_XGMI_WIDTH_X16
                    THEN inval
                    ELSE IF socket_id_to_dev(l.nbios, 0) = NullDev
                    THEN Pair(Ret(t, 0, t.errno), l)
                    ELSE hsmp_send_message(t, l, 0, OpMsg(t, l), "op")

\* Mutant: the message id is not checked.
Dispatch_NoIdCheck(t, l) == Validate(t, l)

\* hsmp_enter from its message id check on, then the operation.
Dispatch(t, l) ==
    IF ~msg_id_supported(l.hsmp_proto_ver, OpTable[t.op].enter)
    THEN Pair(Ret(t, -1, "ENOTSUP"), l)
    ELSE Validate(t, l)

\* Mutant: the caller's privilege is checked until the library is initialized.
hsmp_enter_CheckOnce(t, l, uid) ==
    IF l.initialized = 0 /\ uid # Root THEN Pair(Ret(t, -1, "EPERM"), l)
    ELSE IF l.hsmp_disabled # 0 THEN Pair(Ret(t, -1, "ENOTSUP"), l)
    ELSE IF l.initialized = 0 THEN Pair([t EXCEPT !.pc = "init"], l)
    ELSE Dispatch(t, l)

\* Mutant: hsmp_init runs on every call.
hsmp_enter_AlwaysInit(t, l, uid) ==
    IF uid # Root THEN Pair(Ret(t, -1, "EPERM"), l)
    ELSE IF l.hsmp_disabled # 0 THEN Pair(Ret(t, -1, "ENOTSUP"), l)
    ELSE Pair([t EXCEPT !.pc = "init"], l)

\* Mutant: the disabled flag is not looked at.
hsmp_enter_NoDisabled(t, l, uid) ==
    IF uid # Root THEN Pair(Ret(t, -1, "EPERM"), l)
    ELSE IF l.initialized = 0 THEN Pair([t EXCEPT !.pc = "init"], l)
    ELSE Dispatch(t, l)

\* Mutant: the disabled flag is looked at before the caller's privilege.
hsmp_enter_DisabledFirst(t, l, uid) ==
    IF l.hsmp_disabled # 0 THEN Pair(Ret(t, -1, "ENOTSUP"), l)
    ELSE IF uid # Root THEN Pair(Ret(t, -1, "EPERM"), l)
    ELSE IF l.initialized = 0 THEN Pair([t EXCEPT !.pc = "init"], l)
    ELSE Dispatch(t, l)

\* hsmp_enter: privilege, the disabled flag, initialization on first use.
hsmp_enter(t, l, uid) ==
    IF uid # Root THEN Pair(Ret(t, -1, "EPERM"), l)
    ELSE IF l.hsmp_disabled # 0 THEN Pair(Ret(t, -1, "ENOTSUP"), l)
    ELSE IF l.initialized = 0 THEN Pair([t EXCEPT !.pc = "init"], l)
    ELSE Dispatch(t, l)

\* hsmp_init after hsmp_setup_nbios: the CPU table, then hsmp_probe.
AfterNbios(t, l, m) ==
    LET c  == CpuLoad(Cpuinfo(m), 1, "processor", 0, l.cpus)
        l1 == [l EXCEPT !.cpus = c.cpus]
    IN  IF c.err # 0 THEN InitFail(t, l1, "EINVAL") ELSE ProbeLoop(t, l1, 0)

\* hsmp_init up to hsmp_probe's first exchange.
hsmp_init(t, l0, m) ==
    LET l == [l0 EXCEPT !.x86_family = m.family]
    IN
    IF m.fault = "cpu" THEN Pair(Ret(t, -1, "ENOTSUP"), l)
    ELSE IF m.fault = "pci" THEN InitFail(t, l, "ENOTSUP")
    ELSE LET r  == hsmp_setup_nbios(m)
             n  == Len(m.iohcs)
             t1 == [t EXCEPT !.scanned = TRUE,
                             !.smn = (n = MAX_NBIOS \/ n = MAX_NBIOS \div 2)]
         IN  IF ~r.ok THEN InitFail(t1, l, "ENOTSUP")
             ELSE AfterNbios(t1, [l EXCEPT !.nbios = r.nbios, !.pacc = TRUE], m)

----------------------------------------------------------------------------
(* The state machine *)

Idle(p) == th[p].pc = "idle"

\* The registers of a mailbox and the message the SMU works on; by is the
\* caller whose doorbell write started that message, ans the caller whose
\* doorbell the SMU answered when it wrote the status now in the register
\* (NoProc after a write of the host).
\* smn is the index register of the system-management port of each IOHC
\* device of the socket (devices are numbered as the scan finds them): the
\* IOHCMISC instance whose NB_BUS_NUM_CNTL it addresses, and the process
\* that wrote it and has not yet accessed the data register.
InitMbox ==
    [status |-> HSMP_STATUS_NOT_READY, data |-> 0, pending |-> NoMsg, test |-> "none",
     by |-> NoProc, ans |-> NoProc,
     smn |-> [d \in 1 .. MAX_NBIOS |-> [index |-> -1, by |-> NoProc]]]

Init ==
    /\ machine \in Machines
    /\ euid = [p \in Procs |-> Root]
    /\ lib = [p \in Procs |-> InitLib]
    /\ th = [c \in Callers |-> InitTh]
    /\ lockHolder = NoDesc
    /\ mbox = [s \in Sockets |-> InitMbox]

\* The socket whose mailbox root_dev, the device hsmp_send_message looked up
\* for socket_id, reaches.
MboxOf(p) == machine.iohcs[th[p].root_dev].socket

\* seteuid: a process changes its effective uid between calls.
SetEuid(p) ==
    /\ Idle(p)
    /\ \E u \in Euids \ {euid[p]} : euid' = [euid EXCEPT ![p] = u]
    /\ UNCHANGED <<machine, lib, th, lockHolder, mbox>>

\* The widths hsmp_set_xgmi_width is called with: by hsmp_set_xgmi_auto, which
\* reads hsmp_data.x86_family before any hsmp_enter, the family's range; by a
\* caller, x8..x16, x2..x16, a minimum above the maximum, or a maximum above x16.
XgmiWidths(op, en, l) ==
    IF op = "hsmp_set_xgmi_auto"
    THEN [min |-> XgmiMin(l.x86_family), max |-> HSMP_XGMI_WIDTH_X16]
    ELSE IF op = "hsmp_set_xgmi_width" /\ en = "bad"
    THEN [min |-> HSMP_XGMI_WIDTH_X16, max |-> HSMP_XGMI_WIDTH_X8]
    ELSE IF op = "hsmp_set_xgmi_width" /\ en = "low"
    THEN [min |-> HSMP_XGMI_WIDTH_X2, max |-> HSMP_XGMI_WIDTH_X16]
    ELSE IF op = "hsmp_set_xgmi_width" /\ en = "high"
    THEN [min |-> HSMP_XGMI_WIDTH_X8, max |-> HSMP_XGMI_WIDTH_X16 + 1]
    ELSE IF op = "hsmp_set_xgmi_width"
    THEN [min |-> HSMP_XGMI_WIDTH_X8, max |-> HSMP_XGMI_WIDTH_X16]
    ELSE [min |-> 0, max |-> 0]

\* A caller calls a public operation: everything up to the first point
\* where the call touches the hardware (hsmp_init, hsmp_lock) or returns.
CallWith(p, ops, vals) ==
    /\ Idle(p)
    /\ \E op \in ops :
       \E tgt \in TargetIds(OpTable[op].target), en \in EnumVals(op),
          ptr \in (IF OpTable[op].ptr THEN BOOLEAN ELSE {TRUE}),
          val \in (IF TakesValue(op) THEN vals ELSE {0}) :
       \E g \in (IF OpTable[op].target = "cpu" /\ (tgt < 0 \/ tgt = MAX_CPUS)
                 THEN Garbage ELSE {InitTh.g}) :
          LET l  == lib[ProcOf(p)]
              w  == XgmiWidths(op, en, l)
              t0 == [InitTh EXCEPT !.op = op, !.tgt = tgt, !.ptr = ptr, !.en = en,
                                   !.val = val,
                                   !.min_width = w.min, !.max_width = w.max,
                                   !.g = g,
                                   !.init0 = l.initialized,
                                   !.dis0 = l.hsmp_disabled]
              r  == hsmp_enter(t0, l, euid[ProcOf(p)])
          IN  /\ th' = [th EXCEPT ![p] = r.t]
              /\ lib' = [lib EXCEPT ![ProcOf(p)] = r.l]
    /\ UNCHANGED <<machine, euid, lockHolder, mbox>>

\* A call with an ordinary value.
Call(p, ops) == CallWith(p, ops, {Words.arg})

\* The operation has returned (pc "done" holds its arguments and its result):
\* the caller takes the result and the frame of the call is gone.
Return(p) ==
    /\ th[p].pc = "done"
    /\ th' = [th EXCEPT ![p] = InitTh]
    /\ UNCHANGED <<machine, euid, lib, lockHolder, mbox>>

\* hsmp_init: the CPU check, the bus scan and the tile registers, the CPU table.
HsmpInit(p) ==
    /\ th[p].pc = "init"
    /\ LET r == hsmp_init(th[p], lib[ProcOf(p)], machine)
       IN  /\ th' = [th EXCEPT ![p] = r.t]
           /\ lib' = [lib EXCEPT ![ProcOf(p)] = r.l]
    /\ UNCHANGED <<machine, euid, lockHolder, mbox>>

\* close(fd): the descriptor is gone, and with it the lock of its description.
\* hsmp_data.lock_fd is left naming a closed descriptor, which is as good as
\* -1: only open() makes a descriptor, and hsmp_lock stores what open() returns.
Closed(l, fd) == [l EXCEPT !.fds = @ \ {fd}, !.lock_fd = -1]

\* The lock after a flock(LOCK_UN) or a close of descriptor fd of process pr.
Unlocked(pr, fd) == IF lockHolder = Desc(pr, fd) THEN NoDesc ELSE lockHolder

\* hsmp_lock fails: open() fails (hsmp_data.lock_fd is -1), or flock() fails
\* and hsmp_data.lock_fd is closed.
LockFail(p) ==
    /\ th[p].pc \in {"lock", "flock"}
    /\ LET l  == lib[ProcOf(p)]
           l1 == IF th[p].pc = "lock" THEN [l EXCEPT !.lock_fd = -1]
                 ELSE Closed(l, l.lock_fd)
           r  == SendReturn([th[p] EXCEPT !.err = -1, !.errno = "EIO"], l1)
       IN  /\ th' = [th EXCEPT ![p] = r.t]
           /\ lib' = [lib EXCEPT ![ProcOf(p)] = r.l]
           /\ lockHolder' = IF th[p].pc = "lock" THEN lockHolder
                             ELSE Unlocked(ProcOf(p), l.lock_fd)
    /\ UNCHANGED <<machine, euid, mbox>>

\* hsmp_lock: open() stores the lowest free descriptor in hsmp_data.lock_fd.
hsmp_lock(p) ==
    /\ th[p].pc = "lock"
    /\ LET l    == lib[ProcOf(p)]
           free == Fds \ l.fds
       IN  /\ free # {}
           /\ LET fd == CHOOSE x \in free : \A y \in free : x <= y
              IN  lib' = [lib EXCEPT ![ProcOf(p)] =
                              [l EXCEPT !.lock_fd = fd, !.fds = @ \cup {fd}]]
    /\ th' = [th EXCEPT ![p].pc = "flock"]
    /\ UNCHANGED <<machine, euid, lockHolder, mbox>>

\* Mutant: flock() returns at once, whoever holds the lock.
LockFree_NoWait(p) == TRUE

\* flock(LOCK_EX) on hsmp_data.lock_fd grants the lock when no other open file
\* description holds it.
LockFree(p) ==
    lockHolder \in {NoDesc, Desc(ProcOf(p), lib[ProcOf(p)].lock_fd)}

\* hsmp_lock: the blocking flock(hsmp_data.lock_fd, LOCK_EX).
Flock(p) ==
    /\ th[p].pc = "flock"
    /\ lib[ProcOf(p)].lock_fd \in lib[ProcOf(p)].fds
    /\ LockFree(p)
    /\ lockHolder' = Desc(ProcOf(p), lib[ProcOf(p)].lock_fd)
    /\ th' = [th EXCEPT ![p].pc = "wstatus", ![p].locked = TRUE]
    /\ UNCHANGED <<machine, euid, lib, mbox>>

\* One access to a mailbox register.
Access(rw, reg, slot) == [rw |-> rw, reg |-> reg, slot |-> slot]

\* Mutant: the argument loop does not run.
ArgsDone_Skip(t) == TRUE

\* The argument loop is over: arg_num < msg->num_args is false.
ArgsDone(t) == t.arg_num >= t.msg.nargs

\* _hsmp_send_message: clear the status register.
WriteStatus(p) ==
    /\ th[p].pc = "wstatus"
    /\ mbox' = [mbox EXCEPT ![MboxOf(p)].status = HSMP_STATUS_NOT_READY,
                            ![MboxOf(p)].ans = NoProc]
    /\ th' = [th EXCEPT ![p].pc = IF ArgsDone(th[p]) THEN "wmsg" ELSE "wargs",
                        ![p].mboxacc = TRUE,
                        ![p].log = Append(@, Access("w", "status", 0))]
    /\ UNCHANGED <<machine, euid, lib, lockHolder>>

\* _hsmp_send_message: write argument arg_num to its slot of the data register
\* (the mailbox model keeps slot 0, the only one a message of the library uses).
WriteArgs(p) ==
    /\ th[p].pc = "wargs"
    /\ mbox' = [mbox EXCEPT ![MboxOf(p)].data =
                    IF th[p].arg_num = 0 THEN th[p].msg.arg ELSE @]
    /\ LET t1 == [th[p] EXCEPT !.arg_num = @ + 1,
                               !.log = Append(@, Access("w", "data", th[p].arg_num))]
       IN  th' = [th EXCEPT ![p] = [t1 EXCEPT !.pc = IF ArgsDone(t1) THEN "wmsg"
                                                    ELSE "wargs"]]
    /\ UNCHANGED <<machine, euid, lib, lockHolder>>

\* _hsmp_send_message: write the message id, which starts the SMU.
WriteMsgId(p) ==
    /\ th[p].pc = "wmsg"
    /\ mbox' = [mbox EXCEPT ![MboxOf(p)].pending =
                    [th[p].msg EXCEPT !.arg = mbox[MboxOf(p)].data],
                            ![MboxOf(p)].by = p]
    /\ th' = [th EXCEPT ![p].pc = "poll", ![p].timeout = MboxTimeout,
                        ![p].arg_num = 0,
                        ![p].sent = IF th[p].ctx = "op" THEN @ + 1 ELSE @,
                        ![p].log = Append(@, Access("w", "msg_id", 0))]
    /\ UNCHANGED <<machine, euid, lib, lockHolder>>

\* Mutant: an "invalid message id" status is returned like any other status.
PollResult_NoInvalidId(t, l, status) ==
    IF status = HSMP_STATUS_NOT_READY
    THEN IF t.timeout - 1 = 0
         THEN Pair([t EXCEPT !.pc = "unlock", !.timeout = 0, !.err = -1,
                             !.errno = "ENOTSUP", !.timedout = TRUE],
                   [l EXCEPT !.hsmp_disabled = 1])
         ELSE Pair([t EXCEPT !.timeout = @ - 1], l)
    ELSE IF status # HSMP_STATUS_OK
    THEN Pair([t EXCEPT !.pc = "unlock", !.err = status], l)
    ELSE IF t.msg.rsz > 0
    THEN Pair([t EXCEPT !.pc = "rresp"], l)
    ELSE Pair([t EXCEPT !.pc = "unlock", !.err = 0], l)

\* Mutant: a timeout is reported as ETIMEDOUT.
PollResult_TimedOut(t, l, status) ==
    IF status = HSMP_STATUS_NOT_READY
    THEN IF t.timeout - 1 = 0
         THEN Pair([t EXCEPT !.pc = "unlock", !.timeout = 0, !.err = -1,
                             !.errno = "ETIMEDOUT", !.timedout = TRUE],
                   [l EXCEPT !.hsmp_disabled = 1])
         ELSE Pair([t EXCEPT !.timeout = @ - 1], l)
    ELSE IF status = HSMP_ERR_INVALID_MSG_ID /\ msg_id_supported(l.hsmp_proto_ver, t.msg.num)
    THEN Pair([t EXCEPT !.pc = "unlock", !.err = -1, !.errno = "ENOTSUP"], l)
    ELSE IF status # HSMP_STATUS_OK
    THEN Pair([t EXCEPT !.pc = "unlock", !.err = status], l)
    ELSE IF t.msg.rsz > 0
    THEN Pair([t EXCEPT !.pc = "rresp"], l)
    ELSE Pair([t EXCEPT !.pc = "unlock", !.err = 0], l)

\* Mutant: "invalid message id" for a supported message has an error of its own.
PollResult_Proto(t, l, status) ==
    IF status = HSMP_STATUS_NOT_READY
    THEN IF t.timeout - 1 = 0
         THEN Pair([t EXCEPT !.pc = "unlock", !.timeout = 0, !.err = -1,
                             !.errno = "ENOTSUP", !.timedout = TRUE],
                   [l EXCEPT !.hsmp_disabled = 1])
         ELSE Pair([t EXCEPT !.timeout = @ - 1], l)
    ELSE IF status = HSMP_ERR_INVALID_MSG_ID /\ msg_id_supported(l.hsmp_proto_ver, t.msg.num)
    THEN Pair([t EXCEPT !.pc = "unlock", !.err = -1, !.errno = "EPROTO"], l)
    ELSE IF status # HSMP_STATUS_OK
    THEN Pair([t EXCEPT !.pc = "unlock", !.err = status], l)
    ELSE IF t.msg.rsz > 0
    THEN Pair([t EXCEPT !.pc = "rresp"], l)
    ELSE Pair([t EXCEPT !.pc = "unlock", !.err = 0], l)

\* Mutant: only a timeout of the initialization probe disables the library.
PollResult_ProbeOnly(t, l, status) ==
    IF status = HSMP_STATUS_NOT_READY
    THEN IF t.timeout - 1 = 0
         THEN Pair([t EXCEPT !.pc = "unlock", !.timeout = 0, !.err = -1,
                             !.errno = "ENOTSUP", !.timedout = TRUE],
                   [l EXCEPT !.hsmp_disabled = IF t.ctx = "op" THEN @ ELSE 1])
         ELSE Pair([t EXCEPT !.timeout = @ - 1], l)
    ELSE IF status = HSMP_ERR_INVALID_MSG_ID /\ msg_id_supported(l.hsmp_proto_ver, t.msg.num)
    THEN Pair([t EXCEPT !.pc = "unlock", !.err = -1, !.errno = "ENOTSUP"], l)
    ELSE IF status # HSMP_STATUS_OK
    THEN Pair([t EXCEPT !.pc = "unlock", !.err = status], l)
    ELSE IF t.msg.rsz > 0
    THEN Pair([t EXCEPT !.pc = "rresp"], l)
    ELSE Pair([t EXCEPT !.pc = "unlock", !.err = 0], l)

\* Mutant: the budget is tested before it is counted down (timeout-- == 0).
PollResult_PostDec(t, l, status) ==
    IF status = HSMP_STATUS_NOT_READY
    THEN IF t.timeout = 0
         THEN Pair([t EXCEPT !.pc = "unlock", !.timeout = 0, !.err = -1,
                             !.errno = "ENOTSUP", !.timedout = TRUE],
                   [l EXCEPT !.hsmp_disabled = 1])
         ELSE Pair([t EXCEPT !.timeout = @ - 1], l)
    ELSE IF status = HSMP_ERR_INVALID_MSG_ID /\ msg_id_supported(l.hsmp_proto_ver, t.msg.num)
    THEN Pair([t EXCEPT !.pc = "unlock", !.err = -1, !.errno = "ENOTSUP"], l)
    ELSE IF status # HSMP_STATUS_OK
    THEN Pair([t EXCEPT !.pc = "unlock", !.err = status], l)
    ELSE IF t.msg.rsz > 0
    THEN Pair([t EXCEPT !.pc = "rresp"], l)
    ELSE Pair([t EXCEPT !.pc = "unlock", !.err = 0], l)

\* Mutant: the response is read before the status is compared with OK.
PollResult_ReadFirst(t, l, status) ==
    IF status = HSMP_STATUS_NOT_READY
    THEN IF t.timeout - 1 = 0
         THEN Pair([t EXCEPT !.pc = "unlock", !.timeout = 0, !.err = -1,
                             !.errno = "ENOTSUP", !.timedout = TRUE],
                   [l EXCEPT !.hsmp_disabled = 1])
         ELSE Pair([t EXCEPT !.timeout = @ - 1], l)
    ELSE IF status = HSMP_ERR_INVALID_MSG_ID /\ msg_id_supported(l.hsmp_proto_ver, t.msg.num)
    THEN Pair([t EXCEPT !.pc = "unlock", !.err = -1, !.errno = "ENOTSUP"], l)
    ELSE IF t.msg.rsz > 0
    THEN Pair([t EXCEPT !.pc = "rresp"], l)
    ELSE IF status # HSMP_STATUS_OK
    THEN Pair([t EXCEPT !.pc = "unlock", !.err = status], l)
    ELSE Pair([t EXCEPT !.pc = "unlock", !.err = 0], l)

\* _hsmp_send_message from a status read to its return value.
PollResult(t, l, status) ==
    IF status = HSMP_STATUS_NOT_READY
    THEN IF t.timeout - 1 = 0
         THEN Pair([t EXCEPT !.pc = "unlock", !.timeout = 0, !.err = -1,
                             !.errno = "ENOTSUP", !.timedout = TRUE],
                   [l EXCEPT !.hsmp_disabled = 1])
         ELSE Pair([t EXCEPT !.timeout = @ - 1], l)
    ELSE IF status = HSMP_ERR_INVALID_MSG_ID /\ msg_id_supported(l.hsmp_proto_ver, t.msg.num)
    THEN Pair([t EXCEPT !.pc = "unlock", !.err = -1, !.errno = "ENOTSUP"], l)
    ELSE IF status # HSMP_STATUS_OK
    THEN Pair([t EXCEPT !.pc = "unlock", !.err = status], l)
    ELSE IF t.msg.rsz > 0
    THEN Pair([t EXCEPT !.pc = "rresp"], l)
    ELSE Pair([t EXCEPT !.pc = "unlock", !.err = 0], l)

\* _hsmp_send_message: sleep 1 ms, read the status register.
Poll(p) ==
    /\ th[p].pc = "poll"
    /\ LET status == mbox[MboxOf(p)].status
           r == PollResult(th[p], lib[ProcOf(p)], status)
       IN  /\ th' = [th EXCEPT ![p] =
                         [r.t EXCEPT !.status = status,
                                     !.ans = mbox[MboxOf(p)].ans,
                                     !.log = Append(@, Access("r", "status", 0))]]
           /\ lib' = [lib EXCEPT ![ProcOf(p)] = r.l]
    /\ UNCHANGED <<machine, euid, lockHolder, mbox>>

\* _hsmp_send_message: read response word arg_num from its slot.
ReadResponse(p) ==
    /\ th[p].pc = "rresp"
    /\ LET n == th[p].arg_num + 1
       IN  th' = [th EXCEPT ![p].arg_num = n,
                           ![p].pc = IF n < th[p].msg.rsz THEN "rresp" ELSE "unlock",
                           ![p].err = 0,
                           ![p].resp = IF n = 1 THEN mbox[MboxOf(p)].data ELSE @,
                           ![p].log = Append(@, Access("r", "data", n - 1))]
    /\ UNCHANGED <<machine, euid, lib, lockHolder, mbox>>

\* Mutant: the lock is not released.
Released_Kept(p) == lockHolder

\* flock(hsmp_data.lock_fd, LOCK_UN) and close(hsmp_data.lock_fd).
Released(p) == Unlocked(ProcOf(p), lib[ProcOf(p)].lock_fd)

\* hsmp_unlock, and hsmp_send_message returns to its caller.
hsmp_unlock(p) ==
    /\ th[p].pc = "unlock"
    /\ lockHolder' = Released(p)
    /\ LET l == lib[ProcOf(p)]
           r == SendReturn(th[p], Closed(l, l.lock_fd))
       IN  /\ th' = [th EXCEPT ![p] = r.t]
           /\ lib' = [lib EXCEPT ![ProcOf(p)] = r.l]
    /\ UNCHANGED <<machine, euid, mbox>>

\* What the SMU leaves in the data register when it completes a message.
Answer(m, req, echo) ==
    CASE req.num = HSMP_TEST           -> IF echo THEN (req.arg + 1) % WordMod ELSE req.arg
      [] req.num = HSMP_GET_SMU_VER    -> Words.smuver
      [] req.num = HSMP_GET_PROTO_VER  -> m.fwver
      [] req.rsz > 0                   -> Words.resp
      [] OTHER                         -> req.arg

\* What the SMU's latest completion of a self-test on this socket was: "good"
\* (OK and argument + 1) or "bad"; other messages leave it as it is.
TestOutcome(mb, echo) ==
    IF mb.pending.num # HSMP_TEST THEN mb.test
    ELSE IF echo THEN "good" ELSE "bad"

\* The SMU of socket s completes the pending message: OK with the answer, or
\* an error status.  It may take any time, or never do it.
Smu(s) ==
    /\ mbox[s].pending # NoMsg
    /\ \/ \E echo \in BOOLEAN :
            /\ echo \/ mbox[s].pending.num = HSMP_TEST
            /\ mbox' = [mbox EXCEPT ![s] =
                            [status |-> HSMP_STATUS_OK,
                             data |-> Answer(machine, mbox[s].pending, echo),
                             pending |-> NoMsg,
                             test |-> TestOutcome(mbox[s], echo),
                             by |-> NoProc, ans |-> mbox[s].by,
                             smn |-> mbox[s].smn]]
       \/ \E st \in {HSMP_ERR_INVALID_MSG_ID, HSMP_ERR_INVALID_ARG} :
            mbox' = [mbox EXCEPT ![s].status = st, ![s].pending = NoMsg,
                                 ![s].test = TestOutcome(mbox[s], FALSE),
                                 ![s].by = NoProc, ![s].ans = mbox[s].by]
    /\ UNCHANGED <<machine, euid, lib, th, lockHolder>>

\* The steps of hsmp_send_message and the return of the call.
Exchange(p) ==
    \/ LockFail(p)
    \/ hsmp_lock(p)
    \/ Flock(p)
    \/ WriteStatus(p)
    \/ WriteArgs(p)
    \/ WriteMsgId(p)
    \/ Poll(p)
    \/ ReadResponse(p)
    \/ hsmp_unlock(p)
    \/ Return(p)

\* The steps of a call in progress.
Run(p) == HsmpInit(p) \/ Exchange(p)

\* One process using the library, every operation.
Next ==
    \/ SetEuid("P1")
    \/ Call("P1", SomeOps)
    \/ Run("P1")
    \/ \E s \in Sockets : Smu(s)

Spec == Init /\ [][Next]_vars

\* Several processes using the library on one platform; each sends
\* single-socket and all-socket messages.
MPOps == {"hsmp_set_system_boost_limit"}

InitMP == Init /\ machine = [iohcs |-> OneSocket, fwver |-> 3, family |-> FAMILY_0x19, fault |-> "none"]

NextMP ==
    \/ \E p \in Procs : Call(p, MPOps) \/ Run(p)
    \/ \E s \in Sockets : Smu(s)

SpecMP == InitMP /\ [][NextMP]_vars

----------------------------------------------------------------------------
(* Topology discovery over arbitrary bus numbers *)

\* Two threads of one process using the library on one platform, from the
\* state a first call of the process has left: hsmp_init has built the tables
\* and hsmp_probe has read the versions from socket 0, whose mailbox shows the
\* last answer.
Threads == {c \in Callers : ProcOf(c) = "P1"}

MTOps == {"hsmp_set_system_boost_limit", "hsmp_proc_hot_status"}

InitializedLib(m) ==
    [InitLib EXCEPT !.initialized = 1, !.hsmp_proto_ver = m.fwver,
                    !.smu_firmware = Words.smuver, !.x86_family = m.family,
                    !.nbios = hsmp_setup_nbios(m).nbios, !.cpus = hsmp_get_cpu_data(m),
                    !.pacc = TRUE, !.lock_fd = -1]

InitMT ==
    /\ machine = [iohcs |-> OneSocket, fwver |-> 3, family |-> FAMILY_0x19, fault |-> "none"]
    /\ euid = [p \in Procs |-> Root]
    /\ lib = [p \in Procs |-> IF p = "P1" THEN InitializedLib(machine) ELSE InitLib]
    /\ th = [c \in Callers |-> InitTh]
    /\ lockHolder = NoDesc
    /\ mbox = [s \in Sockets |->
                  IF s = 0 THEN [InitMbox EXCEPT !.status = HSMP_STATUS_OK, !.ans = "P1",
                                                 !.data = machine.fwver, !.test = "good"]
                  ELSE InitMbox]

NextMT ==
    \/ \E c \in Threads : Call(c, MTOps) \/ Exchange(c)
    \/ \E s \in Sockets : Smu(s)

SpecMT == InitMT /\ [][NextMT]_vars

\* hsmp_strerror on its own: a caller holding any of these arguments calls it.
ErrVals == (-3 .. 3) \cup (HSMP_ERR_INVALID_MSG_ID - 2 .. HSMP_ERR_INVALID_ARG + 2)
ErrnoVals == {"0", "EPERM", "EIO", "EINVAL", "ENOTSUP", "ETIMEDOUT"}

InitStr ==
    /\ machine = [iohcs |-> OneSocket, fwver |-> 3, family |-> FAMILY_0x19, fault |-> "none"]
    /\ euid = [p \in Procs |-> Root]
    /\ lib = [p \in Procs |-> InitLib]
    /\ \E e \in ErrVals, v \in ErrnoVals :
          th = [c \in Callers |->
                   IF c = "P1"
                   THEN [InitTh EXCEPT !.op = "hsmp_strerror", !.strerr = e, !.errno_val = v]
                   ELSE InitTh]
    /\ lockHolder = NoDesc
    /\ mbox = [s \in Sockets |-> InitMbox]

Strerror(p) ==
    /\ Idle(p) /\ th[p].op = "hsmp_strerror"
    /\ th' = [th EXCEPT ![p].pc = "done",
                        ![p].text = hsmp_strerror(th[p].strerr, th[p].errno_val)]
    /\ UNCHANGED <<machine, euid, lib, lockHolder, mbox>>

NextStr == Strerror("P1")

SpecStr == InitStr /\ [][NextStr]_vars

\* The argument words: one process on a two-socket platform calling the
\* operations that build a word from several fields or read two response
\* words, with every boost limit of BoostLimits.
ArgOps ==
    {"hsmp_set_cpu_boost_limit", "hsmp_cpu_boost_limit", "hsmp_set_xgmi_auto",
     "hsmp_fabric_clocks"}

InitArgs ==
    Init /\ machine = [iohcs |-> TwoSockets, fwver |-> 3, family |-> FAMILY_0x19,
                       fault |-> "none"]

NextArgs ==
    \/ CallWith("P1", ArgOps, BoostLimits)
    \/ Run("P1")
    \/ \E s \in Sockets : Smu(s)

SpecArgs == InitArgs /\ [][NextArgs]_vars

\* The processes of SpecMP, each scheduled again after every nanosleep of its
\* poll loop: a caller at the status read eventually makes it.
SpecPoll == InitMP /\ [][NextMP]_vars /\ \A p \in Procs : WF_vars(Poll(p))

\* The setters of enumerated values, called by a process of any privilege on
\* a family 17h and on a family 19h platform (a build with HSMP_FAMILY_0x17).
EnumOps == {"hsmp_set_xgmi_width", "hsmp_set_data_fabric_pstate", "hsmp_set_nbio_pstate"}

InitEnum ==
    /\ machine \in {[iohcs |-> OneSocket, fwver |-> 3, family |-> f, fault |-> "none"] :
                        f \in {FAMILY_0x17, FAMILY_0x19}}
    /\ euid = [p \in Procs |-> Root]
    /\ lib = [p \in Procs |-> InitLib]
    /\ th = [c \in Callers |-> InitTh]
    /\ lockHolder = NoDesc
    /\ mbox = [s \in Sockets |-> InitMbox]

NextEnum ==
    \/ SetEuid("P1")
    \/ Call("P1", EnumOps)
    \/ Run("P1")
    \/ \E s \in Sockets : Smu(s)

SpecEnum == InitEnum /\ [][NextEnum]_vars

\* The CPU table load over /proc/cpuinfo files in which any processor record
\* may lack its "physical id" line, its "apicid" line, or both: CPU c is on
\* socket c % 2 and has APIC id c.
RecordFields == {{"physical id", "apicid"}, {"physical id"}, {"apicid"}, {}}

RECURSIVE CpuinfoFile(_, _)
CpuinfoFile(fields, cpu) ==
    IF cpu \notin ModelCpus THEN <<>>
    ELSE CpuRecord(cpu, cpu % MAX_SOCKETS, cpu, fields[cpu]) \o CpuinfoFile(fields, cpu + 1)

CpuMachines ==
    {[iohcs |-> TwoSockets, fwver |-> 3, family |-> FAMILY_0x19, fault |-> "none",
      cpuinfo |-> CpuinfoFile(f, 0)] : f \in [ModelCpus -> RecordFields]}

InitCpu ==
    /\ machine \in CpuMachines
    /\ euid = [p \in Procs |-> Root]
    /\ lib = [p \in Procs |-> InitLib]
    /\ th = [c \in Callers |-> InitTh]
    /\ lockHolder = NoDesc
    /\ mbox = [s \in Sockets |-> InitMbox]

NextCpu ==
    \/ Call("P1", {"hsmp_cpu_boost_limit"})
    \/ Run("P1")
    \/ \E s \in Sockets : Smu(s)

SpecCpu == InitCpu /\ [][NextCpu]_vars

\* hsmp_ddr_bandwidths on any response word: the exchange of a call on an
\* initialized library has read the word the SMU left, and the call
\* goes on from there.  The words have every field at its least value, at
\* its greatest, and in between (the top bit of the word apart).
DdrWords ==
    {mx * 2 ^ 20 + ut * 2 ^ 8 + pc :
        mx \in {0, 1, 1365, 2 ^ 11 - 1}, ut \in {0, 1, 2730, 2 ^ 12 - 1},
        pc \in {0, 1, 100, 2 ^ 8 - 1}}

InitDdr ==
    /\ machine = [iohcs |-> OneSocket, fwver |-> 3, family |-> FAMILY_0x19, fault |-> "none"]
    /\ euid = [p \in Procs |-> Root]
    /\ lib = [p \in Procs |->
                 IF p = "P1"
                 THEN [InitializedLib(machine) EXCEPT !.lock_fd = 1, !.fds = {1}]
                 ELSE InitLib]
    /\ \E w \in DdrWords :
          th = [c \in Callers |->
                   IF c = "P1"
                   THEN [InitTh EXCEPT
                            !.pc = "unlock", !.op = "hsmp_ddr_bandwidths", !.init0 = 1,
                            !.locked = TRUE, !.mboxacc = TRUE, !.sent = 1,
                            !.status = HSMP_STATUS_OK, !.ans = "P1",
                            !.root_dev = socket_id_to_dev(lib["P1"].nbios, 0),
                            !.msg = Msg(HSMP_GET_DDR_BANDWIDTH, 0, 1, 0),
                            !.arg_num = 1, !.timeout = MboxTimeout, !.resp = w,
                            !.log = <<Access("w", "status", 0), Access("w", "msg_id", 0),
                                      Access("r", "status", 0), Access("r", "data", 0)>>]
                   ELSE InitTh]
    /\ lockHolder = Desc("P1", 1)
    /\ mbox = [s \in Sockets |->
                  IF s = 0 THEN [InitMbox EXCEPT !.status = HSMP_STATUS_OK, !.ans = "P1",
                                                 !.test = "good"]
                  ELSE InitMbox]

NextDdr == hsmp_unlock("P1") \/ Return("P1")

SpecDdr == InitDdr /\ [][NextDdr]_vars

\* hsmp_init with the register accesses of hsmp_setup_nbios's last loop as
\* steps of their own, for several processes initializing at the same time.
\* hsmp_setup_nbios up to that loop: the scan, the sort, the bus limits.
SetupNbios(p) ==
    /\ th[p].pc = "init"
    /\ machine.fault \in {"none", "tile"}
    /\ LET n == Len(machine.iohcs)
       IN  lib' = [lib EXCEPT ![ProcOf(p)] =
                      [@ EXCEPT !.x86_family = machine.family, !.pacc = TRUE,
                                !.nbios = BusLimits(SortNbios(ScanTable(machine.iohcs), 0, n), n)]]
    /\ th' = [th EXCEPT ![p].pc = "smn_index", ![p].scanned = TRUE, ![p].arg_num = 0]
    /\ UNCHANGED <<machine, euid, lockHolder, mbox>>

\* The device smu_read goes through in round arg_num of the loop, and its socket.
SmnDev(p) == lib[ProcOf(p)].nbios[th[p].arg_num].dev
SmnSocket(p) == machine.iohcs[SmnDev(p)].socket

\* smu_pci_read, first step: the address goes to the index register.
SmuIndexWrite(p) ==
    /\ th[p].pc = "smn_index"
    /\ mbox' = [mbox EXCEPT ![SmnSocket(p)].smn[SmnDev(p)] =
                    [index |-> th[p].arg_num % 4, by |-> ProcOf(p)]]
    /\ th' = [th EXCEPT ![p].pc = "smn_data", ![p].smn = TRUE]
    /\ UNCHANGED <<machine, euid, lib, lockHolder>>

\* smu_pci_read, second step: the data register gives the register the index
\* register addresses now; then the rest of the round, and after the last
\* round the rest of hsmp_init.
SmuDataRead(p) ==
    /\ th[p].pc = "smn_data"
    /\ LET l    == lib[ProcOf(p)]
           i    == th[p].arg_num
           port == mbox[SmnSocket(p)].smn[SmnDev(p)]
           idx  == bus_to_nbio(l.nbios, TileBus(machine, SmnDev(p), port.index))
           l1   == [l EXCEPT !.nbios[idx].id = i % 4]
           r    == IF idx = -1 THEN InitFail(th[p], l, "ENOTSUP")
                   ELSE IF i + 1 < Len(machine.iohcs)
                   THEN Pair([th[p] EXCEPT !.pc = "smn_index", !.arg_num = i + 1], l1)
                   ELSE AfterNbios([th[p] EXCEPT !.arg_num = 0], l1, machine)
       IN  /\ th' = [th EXCEPT ![p] = r.t]
           /\ lib' = [lib EXCEPT ![ProcOf(p)] = r.l]
           /\ mbox' = [mbox EXCEPT ![SmnSocket(p)].smn[SmnDev(p)].by =
                           IF @ = ProcOf(p) THEN NoProc ELSE @]
    /\ UNCHANGED <<machine, euid, lockHolder>>

InitSmn ==
    Init /\ machine.fault \in {"none", "tile"} /\ machine.fwver = 3
         /\ Len(machine.iohcs) = MAX_NBIOS \div 2

NextSmn ==
    \/ \E p \in Procs :
          \/ Call(p, {"hsmp_interface_version"})
          \/ SetupNbios(p) \/ SmuIndexWrite(p) \/ SmuDataRead(p)
          \/ Exchange(p)
    \/ \E s \in Sockets : Smu(s)

SpecSmn == InitSmn /\ [][NextSmn]_vars

\* The bus numbers the scan may find a matching device on.
DiscBuses == {0, 1, 64, 128, 255}

\* Four devices of one socket on any buses (device i hosts tile i - 1), the
\* numbers may repeat and need not include bus 0.
FourDevices ==
    {[i \in 1 .. 4 |-> Iohc(b[i], 0, i - 1)] : b \in [1 .. 4 -> DiscBuses]}

\* n devices on buses off, off + 32, ..., found in descending or ascending
\* order; the four lowest buses are socket 0.
Devices(n, off, down) ==
    [i \in 1 .. n |->
        LET k == IF down THEN n - i ELSE i - 1
        IN  Iohc(off + 32 * k, k \div 4, k % 4)]

MaxFound == 9

DiscMachines ==
    {[iohcs |-> d, fwver |-> 3, family |-> FAMILY_0x19, fault |-> "none"] : d \in FourDevices}
    \cup {[iohcs |-> Devices(n, off, down), fwver |-> 3, family |-> FAMILY_0x19, fault |-> "none"] :
             n \in 0 .. MaxFound, off \in {0, 16}, down \in BOOLEAN}

InitDisc ==
    /\ machine \in DiscMachines
    /\ euid = [p \in Procs |-> Root]
    /\ lib = [p \in Procs |-> InitLib]
    /\ th = [c \in Callers |-> InitTh]
    /\ lockHolder = NoDesc
    /\ mbox = [s \in Sockets |-> InitMbox]

NextDisc ==
    \/ Call("P1", {"hsmp_interface_version"})
    \/ Run("P1")
    \/ \E s \in Sockets : Smu(s)

SpecDisc == InitDisc /\ [][NextDisc]_vars

----------------------------------------------------------------------------
(* The discovery of src/nbio.c *)

\* a & b on non-negative integers.
RECURSIVE BitAnd(_, _)
BitAnd(a, b) ==
    IF a = 0 \/ b = 0 THEN 0
    ELSE (IF a % 2 = 1 /\ b % 2 = 1 THEN 1 ELSE 0) + 2 * BitAnd(a \div 2, b \div 2)

\* src/nbio.c.  One entry of its nbios array, as calloc leaves it.
NbioDev == [dev |-> NullDev, id |-> 0, bus_base |-> 0, bus_limit |-> 0, index |-> 0, socket |-> 0]

\* find_nbio_devs: the array holds the matching devices in scan order.
find_nbio_devs(iohcs) ==
    [k \in 0 .. (Len(iohcs) - 1) |->
        [NbioDev EXCEPT !.dev = k + 1, !.bus_base = iohcs[k + 1].bus]]

\* The sort of setup_nbios exchanges whole entries.
RECURSIVE NbioSortInner(_, _, _, _)
NbioSortInner(nb, i, j, n) ==
    IF j >= n THEN nb
    ELSE NbioSortInner(IF nb[j].bus_base < nb[i].bus_base
                       THEN [nb EXCEPT ![i] = nb[j], ![j] = nb[i]] ELSE nb,
                       i, j + 1, n)

RECURSIVE NbioSort(_, _, _)
NbioSort(nb, i, n) ==
    IF i >= n - 1 THEN nb ELSE NbioSort(NbioSortInner(nb, i, i + 1, n), i + 1, n)

\* The bus limits of setup_nbios: the last entry's limit, first computed from
\* what lies behind the array, is overwritten with 0xFF.
NbioLimits(nb, n) ==
    [k \in 0 .. (n - 1) |->
        [nb[k] EXCEPT !.bus_limit = IF k < n - 1 THEN (nb[k + 1].bus_base - 1) % 256
                                    ELSE 255]]

\* bus_to_nbio of src/nbio.c: the position of the first entry hosting the bus,
\* -1 for NULL.
nbio_bus_to_nbio(nb, n, bus) ==
    LET hit == {k \in 0 .. (n - 1) : bus >= nb[k].bus_base /\ bus <= nb[k].bus_limit}
    IN  IF hit = {} THEN -1 ELSE CHOOSE k \in hit : \A x \in hit : k <= x

\* What a register read through a device handle returns when the access
\* context owning the handle has been cleaned up: the handle points into freed
\* memory, so the read may still reach the device, return any byte, or fault.
StaleReads == {0, 32, 255}

\* A caller calls setup_nbios of src/nbio.c.
NbioCall(p) ==
    /\ Idle(p)
    /\ th' = [th EXCEPT ![p] = [InitTh EXCEPT !.pc = "nbio_find", !.op = "setup_nbios"]]
    /\ lib' = [lib EXCEPT ![ProcOf(p)].nb = NoNbio]
    /\ UNCHANGED <<machine, euid, lockHolder, mbox>>

\* get_socket_count (one node directory per socket), then find_nbio_devs up
\* to its pci_cleanup: the array refers to the devices of the scan.
NbioFind(p) ==
    /\ th[p].pc = "nbio_find"
    /\ lib' = [lib EXCEPT ![ProcOf(p)].nb =
                   [@ EXCEPT !.num_sockets = Len(machine.iohcs) \div 4,
                             !.pacc = "live",
                             !.num_nbios = Len(machine.iohcs),
                             !.nbios = find_nbio_devs(machine.iohcs)]]
    /\ th' = [th EXCEPT ![p].pc = "nbio_cleanup", ![p].scanned = TRUE]
    /\ UNCHANGED <<machine, euid, lockHolder, mbox>>

\* find_nbio_devs ends with pci_cleanup(pacc) and returns 0.
NbioPciCleanup(p) ==
    /\ th[p].pc = "nbio_cleanup"
    /\ lib' = [lib EXCEPT ![ProcOf(p)].nb.pacc = "freed"]
    /\ th' = [th EXCEPT ![p].pc = "nbio_sort"]
    /\ UNCHANGED <<machine, euid, lockHolder, mbox>>

\* setup_nbios: nbios_per_socket, the sort, the bus limits.
NbioSorted(p) ==
    /\ th[p].pc = "nbio_sort"
    /\ LET nb == lib[ProcOf(p)].nb
           n  == nb.num_nbios
       IN  lib' = [lib EXCEPT ![ProcOf(p)].nb =
                      [nb EXCEPT !.nbios_per_socket = n \div nb.num_sockets,
                                 !.nbios = NbioLimits(NbioSort(nb.nbios, 0, n), n),
                                 !.i = 0]]
    /\ th' = [th EXCEPT ![p].pc = "nbio_tile"]
    /\ UNCHANGED <<machine, euid, lockHolder, mbox>>

\* One round of setup_nbios's last loop: smn_read of IOHCMISC[i & 3] through
\* nbios[i].dev, bus_to_nbio of the bus read, and the entry found gets its
\* id, socket and index; the call returns after the last round, or with
\* ENODEV after cleanup_nbios when no entry hosts the bus.
NbioTile(p) ==
    /\ th[p].pc = "nbio_tile"
    /\ LET nb   == lib[ProcOf(p)].nb
           i    == nb.i
           good == TileBus(machine, nb.nbios[i].dev, BitAnd(i, 3))
       IN  \E base \in (IF nb.pacc = "live" THEN {good} ELSE {good} \cup StaleReads) :
              LET k == nbio_bus_to_nbio(nb.nbios, nb.num_nbios, base)
              IN  IF k = -1
                  THEN /\ lib' = [lib EXCEPT ![ProcOf(p)].nb = [nb EXCEPT !.nbios = <<>>,
                                                                          !.assigned = {}]]
                       /\ th' = [th EXCEPT ![p] = Ret([th[p] EXCEPT !.smn = TRUE], -1, "ENODEV")]
                  ELSE /\ lib' = [lib EXCEPT ![ProcOf(p)].nb =
                                     [nb EXCEPT !.nbios[k].id = BitAnd(i, nb.nbios_per_socket),
                                                !.nbios[k].socket = i \div nb.nbios_per_socket,
                                                !.nbios[k].index = i,
                                                !.assigned = @ \cup {k},
                                                !.i = i + 1]]
                       /\ th' = [th EXCEPT ![p] =
                                     IF i + 1 < nb.num_nbios
                                     THEN [th[p] EXCEPT !.smn = TRUE]
                                     ELSE Ret([th[p] EXCEPT !.smn = TRUE], 0, th[p].errno)]
    /\ UNCHANGED <<machine, euid, lockHolder, mbox>>

\* The read of NbioTile faults: the process dies in setup_nbios.
NbioFault(p) ==
    /\ th[p].pc = "nbio_tile"
    /\ lib[ProcOf(p)].nb.pacc = "freed"
    /\ th' = [th EXCEPT ![p].pc = "killed"]
    /\ UNCHANGED <<machine, euid, lib, lockHolder, mbox>>

\* One process running the discovery of src/nbio.c on platforms of four or
\* eight devices.
NbioMachines == {m \in DiscMachines : Len(m.iohcs) \in {MAX_NBIOS \div 2, MAX_NBIOS}}

InitNbio ==
    /\ machine \in NbioMachines
    /\ euid = [p \in Procs |-> Root]
    /\ lib = [p \in Procs |-> InitLib]
    /\ th = [c \in Callers |-> InitTh]
    /\ lockHolder = NoDesc
    /\ mbox = [s \in Sockets |-> InitMbox]

NextNbio ==
    \/ NbioCall("P1")
    \/ NbioFind("P1")
    \/ NbioPciCleanup("P1")
    \/ NbioSorted("P1")
    \/ NbioTile("P1")
    \/ NbioFault("P1")
    \/ Return("P1")

SpecNbio == InitNbio /\ [][NextNbio]_vars

----------------------------------------------------------------------------
(* Properties *)

Returned(p) == th[p].pc = "done"

\* The positions of _hsmp_send_message: the next step is, or follows, an
\* access to a mailbox register.
InMailbox(p) == th[p].pc \in {"wstatus", "wargs", "wmsg", "poll", "rresp"}

\* The call has not touched the hardware: no bus scan, no tile register
\* read, no lock, no mailbox register access.
NoHardware(p) ==
    ~th[p].scanned /\ ~th[p].smn /\ ~th[p].locked /\ ~th[p].mboxacc

\* C1: whatever the number of processes, a process at any mailbox register
\* access of an exchange holds the exclusive lock on /var/lock/hsmp, so at
\* most one process at a time is inside an exchange.
C1_ExchangeUnderLock ==
    /\ \A p \in Procs : InMailbox(p) =>
            lockHolder = Desc(p, lib[p].lock_fd) /\ lib[p].lock_fd \in lib[p].fds
    /\ \A p, q \in Procs : InMailbox(p) /\ InMailbox(q) => p = q

\* One process polls for its completion while another waits in flock().
C1_Witness ==
    \E p, q \in Procs :
        /\ p # q
        /\ th[p].pc = "poll" /\ th[p].ctx = "op"
        /\ th[q].pc = "flock"

\* C2: a process that is not inside a public operation holds no lock and
\* has no lock file descriptor open, whatever the outcome of its exchanges.
C2_LockReleased ==
    \A p \in Procs :
        th[p].pc \in {"idle", "done"} => lockHolder.proc # p /\ lib[p].fds = {}

\* An operation has returned from an exchange that timed out under the lock.
C2_Witness ==
    \E p \in Procs :
        /\ Returned(p) /\ th[p].locked /\ th[p].timedout
        /\ th[p].ret = -1 /\ th[p].errno = "ENOTSUP"
        /\ lockHolder = NoDesc

\* The step is p's call of a public operation.
Calls(p) == Idle(p) /\ th'[p].pc # "idle"

\* The call p makes in this step fails at once with errno e and reaches
\* neither the bus, the lock nor a mailbox.
FailsAtOnce(p, e) ==
    /\ th'[p].pc = "done" /\ th'[p].ret = -1 /\ th'[p].errno = e
    /\ NoHardware(p)'
    /\ mbox' = mbox /\ lockHolder' = lockHolder

ProbeFailed(p) ==
    /\ Returned(p) /\ euid[p] = Root
    /\ th[p].init0 = 0 /\ th[p].dis0 = 0
    /\ machine.fault = "none"
    /\ lib[p].initialized = 0

\* C4 as the specification states it: whatever makes the probe fail, the
\* library is disabled from then on.
C4_Original ==
    \A p \in Procs : ProbeFailed(p) => lib[p].hsmp_disabled # 0

\* C4: a probe that fails returns -1 with ENOTSUP and leaves the library
\* uninitialized with an empty table; it disables the library exactly when
\* one of its exchanges timed out.  A root call on a library that is neither
\* initialized nor disabled scans the bus again, so after any other probe
\* failure the next call repeats the scan and the probe.
C4_ProbeFailure ==
    \A p \in Procs :
        /\ ProbeFailed(p) =>
              /\ th[p].ret = -1 /\ th[p].errno = "ENOTSUP"
              /\ lib[p].nbios = hsmp_clear_nbio_table
              /\ lib[p].hsmp_disabled # 0 <=> th[p].timedout
        /\ Returned(p) /\ euid[p] = Root /\ th[p].init0 = 0 /\ th[p].dis0 = 0
           /\ machine.fault \notin {"cpu", "pci"} => th[p].scanned

\* The probe has failed on an error status or a wrong reply, not a timeout.
C4_Witness ==
    \E p \in Procs :
        /\ ProbeFailed(p) /\ th[p].mboxacc /\ ~th[p].timedout
        /\ lib[p].hsmp_disabled = 0

\* C5 as the specification states it: the version an initialized library
\* works with is the smaller of 3 and the version the firmware reports.
C5_Original ==
    \A p \in Procs :
        lib[p].initialized = 1 =>
            lib[p].hsmp_proto_ver = IF machine.fwver < 3 THEN machine.fwver ELSE 3

\* C6 as the specification states it: an operation whose message id the
\* negotiated version does not support returns -1 with ENOTSUP and the call
\* accesses no register.
C6_Original ==
    \A p \in Procs :
        Returned(p) /\ lib[p].initialized = 1
        /\ ~msg_id_supported(lib[p].hsmp_proto_ver, OpTable[th[p].op].enter)
        => th[p].ret = -1 /\ th[p].errno = "ENOTSUP" /\ NoHardware(p)

\* C6: an operation called with effective user id 0 on an initialized
\* library, whose message id the negotiated version does not support, returns
\* -1 with ENOTSUP and the call accesses no register.
C6_UnsupportedId ==
    \A p \in Procs :
        Returned(p) /\ th[p].init0 = 1 /\ euid[p] = Root
        /\ ~msg_id_supported(lib[p].hsmp_proto_ver, OpTable[th[p].op].enter)
        => th[p].ret = -1 /\ th[p].errno = "ENOTSUP" /\ NoHardware(p)

\* The DDR bandwidth query has been refused on an initialized version 1 library.
C6_Witness ==
    \E p \in Procs :
        /\ Returned(p) /\ th[p].init0 = 1 /\ th[p].dis0 = 0 /\ euid[p] = Root
        /\ th[p].op = "hsmp_ddr_bandwidths" /\ lib[p].hsmp_proto_ver = 1
        /\ th[p].errno = "ENOTSUP"

\* C7 as the specification states it: a root call on an initialized, enabled
\* library is refused by the version gate exactly when its message id is
\* above 17 (version 1), 18 (version 2), 20 (version 3 and later).
C7_Original ==
    \A p \in Procs :
        LET ver == lib[p].hsmp_proto_ver
            maxid == IF ver <= 1 THEN HSMP_GET_C0_PERCENT
                     ELSE IF ver = 2 THEN HSMP_SET_NBIO_DPM_LEVEL
                     ELSE HSMP_GET_DDR_BANDWIDTH
        IN  Returned(p) /\ th[p].init0 = 1 /\ th[p].dis0 = 0 /\ euid[p] = Root
            => ((th[p].ret = -1 /\ th[p].errno = "ENOTSUP" /\ ~th[p].locked)
                <=> OpTable[th[p].op].enter > maxid)

\* C8: an operation called with an effective user id other than 0 returns -1
\* with EPERM, changes nothing of the library's state and accesses neither
\* the bus nor a register.
C8_NotRoot ==
    [][\A p \in Procs :
          Calls(p) /\ euid[p] # Root =>
              FailsAtOnce(p, "EPERM") /\ lib'[p] = lib[p]]_vars

\* A caller without privilege has been refused on an initialized library.
C8_Witness ==
    \E p \in Procs :
        /\ Returned(p) /\ euid[p] # Root /\ th[p].errno = "EPERM"
        /\ lib[p].initialized = 1

\* The sockets of the machine.
SocketCount == Len(machine.iohcs) \div (MAX_NBIOS \div MAX_SOCKETS)

\* The call's arguments are invalid: a null output pointer, a socket the
\* machine does not have, a CPU that is not populated, a bus no tile covers,
\* a table index out of range, a malformed enumeration value.
InvalidArg(p) ==
    LET o == OpTable[th[p].op]
        cpus == hsmp_get_cpu_data(machine)
    IN  \/ o.ptr /\ ~th[p].ptr
        \/ o.target = "socket" /\ th[p].tgt \notin 0 .. SocketCount - 1
        \/ o.target = "cpu" /\ (th[p].tgt \notin ModelCpus \/ cpus[th[p].tgt].valid = 0)
        \/ o.target = "bus" /\ bus_to_nbio(hsmp_setup_nbios(machine).nbios, th[p].tgt) = -1
        \/ o.target = "idx" /\ th[p].tgt \notin NbioIdx
        \/ th[p].en \in {"bad", "high"}

\* C9 as the specification states it: a call with an invalid argument fails
\* and accesses no hardware, whether or not the library was initialized.
C9_Original ==
    \A p \in Procs :
        Returned(p) /\ InvalidArg(p) => th[p].ret = -1 /\ NoHardware(p)

\* C10 as the specification states it: an operation on a socket the machine
\* does not have fails with EINVAL, and the call takes no lock and accesses no
\* mailbox.
C10_Original ==
    \A p \in Procs :
        Returned(p) /\ OpTable[th[p].op].target = "socket"
        /\ th[p].tgt \notin 0 .. SocketCount - 1
        => th[p].ret = -1 /\ th[p].errno = "EINVAL"
           /\ ~th[p].locked /\ ~th[p].mboxacc

\* C10: on an initialized library, an operation that passes hsmp_enter
\* (effective user id 0, library not disabled, message id supported) and
\* names a socket the machine does not have fails with EINVAL, and the call
\* takes no lock and accesses no mailbox.
C10_BadSocket ==
    \A p \in Procs :
        Returned(p) /\ OpTable[th[p].op].target = "socket"
        /\ th[p].tgt \notin 0 .. SocketCount - 1
        /\ th[p].init0 = 1 /\ th[p].dis0 = 0 /\ euid[p] = Root
        /\ msg_id_supported(lib[p].hsmp_proto_ver, OpTable[th[p].op].enter)
        => th[p].ret = -1 /\ th[p].errno = "EINVAL"
           /\ ~th[p].locked /\ ~th[p].mboxacc

\* Socket 1 of a one-socket machine has been refused.
C10_Witness ==
    \E p \in Procs :
        /\ Returned(p) /\ OpTable[th[p].op].target = "socket"
        /\ th[p].tgt = 1 /\ SocketCount = 1
        /\ th[p].init0 = 1 /\ th[p].dis0 = 0 /\ euid[p] = Root
        /\ th[p].errno = "EINVAL" /\ ~th[p].locked

\* The operation exchanges a message with the SMU.
Exchanges(p) == OpTable[th[p].op].msg # 0

C12_Original ==
    \A p \in Procs :
        Returned(p) /\ th[p].timedout =>
            /\ th[p].ret < 0 /\ th[p].errno \notin {"unset", "ENOTSUP"}
            /\ lockHolder.proc # p /\ lib[p].fds = {}

\* C12: a poll loop gives up on its last allowed poll and not before; an
\* exchange whose polls all read not-ready makes the operation return -1 with
\* ENOTSUP, the same condition as "not supported", and disables the library;
\* the lock is released when the operation returns.
C12_Timeout ==
    \A p \in Procs :
        /\ th[p].pc = "poll" => th[p].timeout \in 1 .. MboxTimeout
        /\ Returned(p) /\ th[p].timedout =>
              /\ th[p].ret = -1 /\ th[p].errno = "ENOTSUP"
              /\ lib[p].hsmp_disabled # 0
              /\ lockHolder.proc # p /\ lib[p].fds = {}

\* An operation on an initialized library has returned from a timeout.
C12_Witness ==
    \E p \in Procs :
        /\ Returned(p) /\ th[p].timedout /\ th[p].init0 = 1
        /\ th[p].errno = "ENOTSUP" /\ lockHolder = NoDesc

\* C13 as the specification states it: a timeout of an exchange after a
\* successful initialization does not disable the library.
C13_Original ==
    \A p \in Procs :
        Returned(p) /\ th[p].timedout /\ th[p].init0 = 1 =>
            lib[p].hsmp_disabled = 0

\* C13: a timeout of an exchange after a successful initialization disables
\* the library, which stays initialized; an operation called on such a
\* library fails with ENOTSUP (EPERM without privilege) and attempts no
\* exchange.
C13_TimeoutDisables ==
    \A p \in Procs :
        /\ Returned(p) /\ th[p].timedout /\ th[p].init0 = 1 =>
              lib[p].hsmp_disabled # 0 /\ lib[p].initialized = 1
        /\ Returned(p) /\ th[p].dis0 # 0 /\ th[p].init0 = 1 =>
              /\ th[p].ret = -1
              /\ th[p].errno = (IF euid[p] = Root THEN "ENOTSUP" ELSE "EPERM")
              /\ NoHardware(p)

\* A root caller has retried on a library that a timeout disabled after its
\* initialization.
C13_Witness ==
    \E p \in Procs :
        /\ Returned(p) /\ th[p].dis0 # 0 /\ th[p].init0 = 1 /\ euid[p] = Root
        /\ Exchanges(p) /\ th[p].errno = "ENOTSUP"

\* The table entries of p that hold a device handle, those among them whose
\* range holds bus b, and the bus numbers the scan finds devices on.
Populated(p) == {i \in NbioIdx : lib[p].nbios[i].dev # NullDev}

Covering(p, b) ==
    {i \in Populated(p) : lib[p].nbios[i].bus_base <= b /\ b <= lib[p].nbios[i].bus_limit}

FoundBuses == {machine.iohcs[i].bus : i \in 1 .. Len(machine.iohcs)}

\* The ranges of the populated entries partition 0..255.
Partition(p) ==
    /\ \A b \in 0 .. 255 : Cardinality(Covering(p, b)) = 1
    /\ \A i \in Populated(p) : lib[p].nbios[i].bus_base <= lib[p].nbios[i].bus_limit

\* C14 as the specification states it: whatever the bus numbers of the 4 or
\* 8 devices, the ranges of the table a discovery leaves partition 0..255.
C14_Original ==
    \A p \in Procs : Populated(p) # {} => Partition(p)

\* C14: when the 4 or 8 devices are on distinct buses, one of them bus 0, the
\* ranges of the table a discovery leaves partition 0..255: every bus belongs
\* to exactly one entry and bus_base <= bus_limit in each entry.
C14_BusRanges ==
    \A p \in Procs :
        Populated(p) # {}
        /\ Cardinality(FoundBuses) = Len(machine.iohcs) /\ 0 \in FoundBuses
        => Partition(p)

\* A library is initialized on eight devices that the scan found in
\* descending bus order, bus 0 last.
C14_Witness ==
    \E p \in Procs :
        /\ lib[p].initialized = 1 /\ Populated(p) = NbioIdx
        /\ machine.iohcs[MAX_NBIOS].bus = 0
        /\ lib[p].nbios[0].bus_base = 0 /\ lib[p].nbios[MAX_NBIOS - 1].bus_limit = 255

C16_SortedPaired ==
    \A p \in Procs :
        Populated(p) # {} =>
            LET nb == lib[p].nbios
                n  == Cardinality(Populated(p))
            IN  /\ Populated(p) = 0 .. n - 1
                /\ n = Len(machine.iohcs)
                /\ \A i, j \in Populated(p) : i < j => nb[i].bus_base <= nb[j].bus_base
                /\ \A i \in Populated(p) : machine.iohcs[nb[i].dev].bus = nb[i].bus_base
                /\ \A i, j \in Populated(p) : i # j => nb[i].dev # nb[j].dev
                /\ nb[n - 1].bus_limit = 255

\* A table has been built from four devices that the scan found out of
\* order.
C16_Witness ==
    \E p \in Procs :
        /\ Populated(p) = 0 .. 3
        /\ machine.iohcs[1].bus > machine.iohcs[2].bus
        /\ machine.iohcs[2].bus < machine.iohcs[3].bus
        /\ lib[p].nbios[0].dev # 1
        /\ lib[p].initialized = 1

\* C17: a library that is not initialized and is not inside hsmp_init's
\* discovery and probe holds no PCI access context and no device handle in
\* any table entry: every failed initialization has released what it built,
\* and every hsmp_init starts without a context to lose.
C17_Cleanup ==
    \A p \in Procs :
        lib[p].initialized = 0 /\ th[p].pc \in {"idle", "init", "done"} =>
            ~lib[p].pacc /\ Populated(p) = {}

\* An initialization has failed in its probe, after the table was built and
\* a mailbox was used.
C17_Witness ==
    \E p \in Procs :
        /\ Returned(p) /\ th[p].init0 = 0 /\ th[p].scanned /\ th[p].mboxacc
        /\ lib[p].initialized = 0 /\ th[p].ret = -1
        /\ ~lib[p].pacc /\ Populated(p) = {}

\* The sockets the machine has.
Present == 0 .. SocketCount - 1

NextBusReturned(p) == Returned(p) /\ th[p].op = "hsmp_next_bus"

\* C19 as the specification states it: a successful hsmp_next_bus(idx) stores
\* the base bus of entry idx and returns idx + 1, the index to pass next,
\* except that the call that stores the last bus of the system returns 0.
C19_Original ==
    \A p \in Procs :
        NextBusReturned(p) /\ th[p].outset =>
            /\ th[p].out = lib[p].nbios[th[p].tgt].bus_base
            /\ th[p].ret = IF \A i \in Populated(p) : i <= th[p].tgt
                           THEN 0 ELSE th[p].tgt + 1

\* C20 as the specification states it: whenever hsmp_next_bus returns -1 the
\* call has set errno.
C20_Original ==
    \A p \in Procs :
        NextBusReturned(p) /\ th[p].ret = -1 => th[p].errno # "unset"

\* The operations that store a result through a pointer argument.
Getters == {op \in Ops : OpTable[op].ptr}

\* C21 as the specification states it: a getter called with a null output
\* pointer returns -1 with errno EINVAL, EPERM or ENOTSUP, sends no message
\* of its own and stores nothing.
C21_Original ==
    \A p \in Procs :
        Returned(p) /\ th[p].op \in Getters /\ ~th[p].ptr =>
            /\ th[p].ret = -1 /\ th[p].errno \in {"EINVAL", "EPERM", "ENOTSUP"}
            /\ th[p].sent = 0 /\ ~th[p].outset

\* The message of p's operation is on its way: its arguments and the doorbell
\* have been written (th[p].msg is what was written) and the call polls for
\* the completion.
InFlight(p) == th[p].pc = "poll" /\ th[p].ctx = "op"

\* C22 as the specification states it: for every valid cpu and every 32-bit
\* boost limit, the word hsmp_set_cpu_boost_limit sends holds the APIC id of
\* the cpu in its upper 16 bits and the limit in its lower 16 bits, so that
\* firmware storing the lower half under the upper half returns the limit to
\* a query by that APIC id.
C22_Original ==
    \A p \in Procs :
        /\ InFlight(p) /\ th[p].op = "hsmp_set_cpu_boost_limit"
        /\ th[p].tgt \in ModelCpus
        => /\ th[p].msg.num = HSMP_SET_BOOST_LIMIT /\ th[p].sent = 1
           /\ th[p].msg.arg \div 2 ^ 16 = lib[p].cpus[th[p].tgt].apicid
           /\ th[p].msg.arg % 2 ^ 16 = th[p].val % 2 ^ 16

\* C23 as the specification states it: hsmp_set_xgmi_auto sends every present
\* socket the default range of the CPU family of the machine (x2..x16 from
\* family 19h on, x8..x16 before), whether or not an earlier call had
\* initialized the library.
C23_Original ==
    \A p \in Procs :
        InFlight(p) /\ th[p].op = "hsmp_set_xgmi_auto" =>
            /\ th[p].msg.num = HSMP_SET_XGMI_LINK_WIDTH
            /\ th[p].msg.arg = XgmiMin(machine.family) * 2 ^ 8 + HSMP_XGMI_WIDTH_X16

\* C24 as the specification states it: the privilege is checked once per
\* process; an operation called on an initialized library is not refused for
\* its effective uid.
C24_Original ==
    \A p \in Procs :
        Returned(p) /\ th[p].init0 = 1 => th[p].errno # "EPERM"

\* C24: the privilege is checked at every call.  An operation called on an
\* initialized library returns -1 with EPERM exactly when the effective uid
\* of the process is not 0, and then it has taken no lock and sent nothing.
C24_EveryCall ==
    \A p \in Procs :
        Returned(p) /\ th[p].init0 = 1 =>
            /\ euid[p] # Root <=> th[p].ret = -1 /\ th[p].errno = "EPERM"
            /\ euid[p] # Root => ~th[p].locked /\ ~th[p].mboxacc /\ th[p].sent = 0

\* The process initialized the library as root, changed its effective uid,
\* and an operation that exchanges a message was refused.
C24_Witness ==
    \E p \in Procs :
        /\ Returned(p) /\ Exchanges(p) /\ th[p].init0 = 1 /\ lib[p].hsmp_disabled = 0
        /\ euid[p] # Root /\ th[p].ret = -1 /\ th[p].errno = "EPERM"

\* p's call of an operation that loops over the sockets has returned.
AllSocketsReturned(p) == Returned(p) /\ OpTable[th[p].op].target = "all"

\* C25 as the specification states it: when an operation that sets every
\* socket returns a failure on a two-socket system, no socket has had the new
\* setting applied.
C25_Original ==
    \A p \in Procs :
        AllSocketsReturned(p) /\ SocketCount = MAX_SOCKETS /\ th[p].ret # 0 =>
            th[p].applied = {}

\* C25: an operation that sets every socket goes through the sockets in
\* ascending order and stops at the first failure.  When it returns 0 every
\* present socket has the setting; when it returns a failure the sockets
\* before the failing one have it, not every socket has, and no message was
\* sent after the failing one.
C25_StopsAtFailure ==
    \A p \in Procs :
        AllSocketsReturned(p) =>
            /\ th[p].ret = 0 => th[p].applied = Present
            /\ th[p].ret # 0 =>
                  /\ \E k \in Present : th[p].applied = 0 .. k - 1
                  /\ th[p].sent <= Cardinality(th[p].applied) + 1

\* Socket 0 of a two-socket system has the new setting, socket 1 refused it
\* and the operation returned the failure.
C25_Witness ==
    \E p \in Procs :
        /\ AllSocketsReturned(p) /\ SocketCount = MAX_SOCKETS
        /\ th[p].ret = HSMP_ERR_INVALID_ARG /\ th[p].applied = {0} /\ th[p].sent = MAX_SOCKETS

\* C26 as the specification states it: with two threads of one process
\* calling operations concurrently, their exchanges never overlap, and once
\* both are outside the library no descriptor of the lock file is left open
\* and no lock is left held.
C26_Original ==
    /\ \A c, d \in Threads : InMailbox(c) /\ InMailbox(d) => c = d
    /\ (\A c \in Threads : th[c].pc \in {"idle", "done"}) =>
            lib["P1"].fds = {} /\ lockHolder.proc # "P1"

\* p's operation has returned after the firmware answered its message, which
\* the negotiated version supports, with "invalid message id".
InvalidIdAnswered(p) ==
    /\ Returned(p) /\ th[p].sent > 0 /\ th[p].status = HSMP_ERR_INVALID_MSG_ID
    /\ msg_id_supported(lib[p].hsmp_proto_ver, OpTable[th[p].op].msg)

\* C27 as the specification states it: when the firmware answers a supported
\* message with "invalid message id", the call fails with an error the caller
\* can tell apart from the not-supported outcome of the version gate and of
\* the disabled state (-1 with ENOTSUP).
C27_Original ==
    \A p \in Procs :
        InvalidIdAnswered(p) => ~(th[p].ret = -1 /\ th[p].errno = "ENOTSUP")

\* C27: when the firmware answers a supported message with "invalid message
\* id", the call returns -1 with ENOTSUP, the very outcome of the version gate
\* and of the disabled state, and the library is not disabled by it.
C27_NotSupported ==
    \A p \in Procs :
        InvalidIdAnswered(p) =>
            /\ th[p].ret = -1 /\ th[p].errno = "ENOTSUP"
            /\ ~th[p].timedout /\ lib[p].hsmp_disabled = 0

\* An operation on an initialized library got "invalid message id" for its
\* message and returned.
C27_Witness ==
    \E p \in Procs :
        /\ InvalidIdAnswered(p) /\ th[p].init0 = 1 /\ th[p].sent = 1
        /\ th[p].ret = -1 /\ th[p].errno = "ENOTSUP"

\* The cpu argument of p's call names no populated entry of the CPU table.
NoSuchCpu(p) ==
    /\ OpTable[th[p].op].target = "cpu"
    /\ \/ th[p].tgt \notin 0 .. MAX_CPUS - 1
       \/ CpuEntry(lib[p].cpus, th[p].tgt, th[p].g).valid = 0

\* C28 as the specification states it: cpu_apicid and cpu_socket_id refuse
\* every CPU number outside 0..MAX_CPUS-1 and every unpopulated entry, so on an
\* initialized library a root call of hsmp_set_cpu_boost_limit or
\* hsmp_cpu_boost_limit (with an output pointer, and the message supported)
\* for such a cpu returns -1 with EINVAL and sends no message.
C28_Original ==
    \A p \in Procs :
        /\ Returned(p) /\ NoSuchCpu(p) /\ th[p].ptr
        /\ th[p].init0 = 1 /\ th[p].dis0 = 0 /\ euid[p] = Root
        /\ msg_id_supported(lib[p].hsmp_proto_ver, OpTable[th[p].op].enter)
        => th[p].ret = -1 /\ th[p].errno = "EINVAL" /\ th[p].sent = 0

\* C29: hsmp_strerror(err, errno_val) returns "Success" for err = 0, "Invalid
\* HSMP message ID" for err = 0xFE, "Invalid HSMP argument" for err = 0xFF,
\* the text strerror gives for errno_val when err = -1, and "Unknown error"
\* for every other err.
C29_Strerror ==
    \A p \in Procs :
        Returned(p) /\ th[p].op = "hsmp_strerror" =>
            /\ th[p].strerr = 0 => th[p].text = "Success"
            /\ th[p].strerr = HSMP_ERR_INVALID_MSG_ID => th[p].text = "Invalid HSMP message ID"
            /\ th[p].strerr = HSMP_ERR_INVALID_ARG => th[p].text = "Invalid HSMP argument"
            /\ th[p].strerr = -1 => th[p].text = strerror(th[p].errno_val)
            /\ th[p].strerr \notin {-1, 0, HSMP_ERR_INVALID_MSG_ID, HSMP_ERR_INVALID_ARG} =>
                  th[p].text = "Unknown error"

\* hsmp_strerror(-1, EINVAL) has returned the text of EINVAL.
C29_Witness ==
    \E p \in Procs :
        /\ Returned(p) /\ th[p].op = "hsmp_strerror"
        /\ th[p].strerr = -1 /\ th[p].errno_val = "EINVAL"
        /\ th[p].text = "Invalid argument"

\* The register accesses of an exchange of msg that polls k times and reads r
\* response words: status cleared, the arguments in ascending slots, the
\* doorbell, the status reads, the response in ascending slots.
AccessPattern(msg, k, r) ==
    <<Access("w", "status", 0)>>
    \o [i \in 1 .. msg.nargs |-> Access("w", "data", i - 1)]
    \o <<Access("w", "msg_id", 0)>>
    \o [i \in 1 .. k |-> Access("r", "status", 0)]
    \o [i \in 1 .. r |-> Access("r", "data", i - 1)]

IsPrefix(s, t) == Len(s) <= Len(t) /\ SubSeq(t, 1, Len(s)) = s

\* The doorbell writes among the accesses.
Doorbells(log) == {i \in 1 .. Len(log) : log[i] = Access("w", "msg_id", 0)}

\* C30: the register accesses of every exchange are, in this order, one write
\* of not-ready to the status register, the argument words in ascending
\* slots, one write of the message id, status reads, and after an OK status
\* the response words in ascending slots: at every point the accesses so far
\* begin that sequence, the doorbell is written once and after all arguments,
\* and an exchange that succeeds has made all of them.
C30_AccessOrder ==
    \A p \in Procs :
        th[p].pc \in {"wstatus", "wargs", "wmsg", "poll", "rresp", "unlock"} =>
            /\ \E k \in 1 .. MboxTimeout :
                   IsPrefix(th[p].log, AccessPattern(th[p].msg, k, th[p].msg.rsz))
            /\ th[p].pc \in {"poll", "rresp", "unlock"} =>
                   Doorbells(th[p].log) = {th[p].msg.nargs + 2}
            /\ th[p].pc \in {"wstatus", "wargs", "wmsg"} => Doorbells(th[p].log) = {}
            /\ th[p].pc = "unlock" /\ th[p].err = 0 =>
                   \E k \in 1 .. MboxTimeout :
                       th[p].log = AccessPattern(th[p].msg, k, th[p].msg.rsz)

\* hsmp_fabric_clocks has read both response words after a second status read.
C30_Witness ==
    \E p \in Procs :
        /\ th[p].pc = "unlock" /\ th[p].op = "hsmp_fabric_clocks" /\ th[p].ctx = "op"
        /\ th[p].err = 0 /\ th[p].msg.rsz = 2
        /\ th[p].log = AccessPattern(th[p].msg, 2, 2)

\* The status reads among the accesses of an exchange.
StatusReads(log) == Cardinality({i \in 1 .. Len(log) : log[i] = Access("r", "status", 0)})

\* C31: once the doorbell is written the poll loop ends.  It reads the
\* status register at most MboxTimeout times (500 in the code); while it
\* polls, every read so far was not-ready and the budget left is what the
\* reads have not used; it leaves on the first read that is not not-ready,
\* the last one of the budget included, and times out exactly when the last
\* read of the budget is not-ready.
C31_PollTerminates ==
    /\ [](\A p \in Procs :
             LET t == th[p]
                 n == StatusReads(t.log)
             IN  /\ t.pc = "poll" =>
                        /\ n < MboxTimeout /\ t.timeout = MboxTimeout - n
                        /\ n > 0 => t.status = HSMP_STATUS_NOT_READY
                 /\ t.pc \in {"rresp", "unlock"} =>
                        /\ n \in 1 .. MboxTimeout
                        /\ t.timedout <=> (n = MboxTimeout /\ t.status = HSMP_STATUS_NOT_READY)
                        /\ t.timedout => t.err = -1 /\ t.errno = "ENOTSUP"
                        /\ ~t.timedout => t.status # HSMP_STATUS_NOT_READY)
    /\ \A p \in Procs : (th[p].pc = "poll") ~> (th[p].pc \in {"rresp", "unlock"})

\* A completion seen on the last read of the budget has been accepted.
C31_Witness ==
    \E p \in Procs :
        /\ th[p].pc = "unlock" /\ th[p].ctx = "op"
        /\ StatusReads(th[p].log) = MboxTimeout
        /\ th[p].status = HSMP_STATUS_OK /\ th[p].err = 0 /\ ~th[p].timedout

\* The positions of the data register reads among the accesses of an exchange.
DataReads(log) == {i \in 1 .. Len(log) : log[i].rw = "r" /\ log[i].reg = "data"}

\* C32: an exchange reads data registers only after a status read that
\* returned OK; when it ends it has read response_sz of them after OK (none
\* when response_sz is 0) and none after any other status or a timeout; and
\* a getter writes its output only after its own exchange was answered OK.
C32_ResponseReads ==
    \A p \in Procs :
        LET t == th[p]
            d == DataReads(t.log)
        IN  /\ d # {} =>
                  /\ t.status = HSMP_STATUS_OK /\ ~t.timedout
                  /\ \A i \in d : i > 1 /\ \E j \in 1 .. (i - 1) :
                                               t.log[j] = Access("r", "status", 0)
                  /\ Cardinality(d) <= t.msg.rsz
            /\ t.pc = "unlock" =>
                  Cardinality(d) = IF t.status = HSMP_STATUS_OK THEN t.msg.rsz ELSE 0
            /\ t.pc # "done" => ~t.outset
            /\ Returned(p) /\ OpTable[t.op].rsz > 0 =>
                  /\ t.outset <=> t.ret = 0
                  /\ t.outset => t.sent = 1 /\ t.status = HSMP_STATUS_OK /\ ~t.timedout

\* A getter has returned an error status without writing its output, after an
\* exchange that read no data register.
C32_Witness ==
    \E p \in Procs :
        /\ Returned(p) /\ th[p].op = "hsmp_fabric_clocks" /\ th[p].sent = 1
        /\ th[p].status = HSMP_ERR_INVALID_ARG /\ th[p].ret = HSMP_ERR_INVALID_ARG
        /\ ~th[p].outset

\* C33 as the specification states it: a status an exchange accepts as its
\* completion (any status read that is not not-ready) was written by the SMU
\* in answer to the doorbell of that exchange.
C33_Original ==
    \A p \in Procs :
        th[p].pc \in {"rresp", "unlock"} /\ th[p].status # HSMP_STATUS_NOT_READY =>
            th[p].ans = p

\* What hsmp_init and hsmp_probe write of hsmp_data: the PCI context, the
\* access-point table, the CPU table, the versions and the family.
Discovered(l) ==
    <<l.pacc, l.nbios, l.cpus, l.smu_firmware, l.hsmp_proto_ver, l.x86_family,
      l.initialized>>

\* C34: a call that finds the library initialized runs neither the bus scan
\* and tile reads, nor the CPU table load, nor the probe; and once initialized
\* is set, no step changes the table, the CPU table, the versions, the family
\* or the initialized flag: hsmp_disabled going from 0 to 1 is the only change
\* (lock_fd, which holds the descriptor of the exchange in progress, apart).
C34_WrittenOnce ==
    /\ [](\A p \in Procs :
             th[p].pc # "idle" /\ th[p].init0 = 1 =>
                 /\ ~th[p].scanned /\ ~th[p].smn
                 /\ th[p].pc # "init" /\ th[p].ctx = "op")
    /\ [][\A p \in Procs :
             lib[p].initialized = 1 =>
                 /\ Discovered(lib'[p]) = Discovered(lib[p])
                 /\ lib'[p].hsmp_disabled >= lib[p].hsmp_disabled
                 /\ lib'[p].hsmp_disabled \in {0, 1}]_vars

\* A call on an initialized library has timed out: the library is disabled
\* and still holds its table and version.
C34_Witness ==
    \E p \in Procs :
        /\ Returned(p) /\ th[p].init0 = 1 /\ th[p].timedout
        /\ lib[p].initialized = 1 /\ lib[p].hsmp_disabled = 1
        /\ lib[p].nbios = hsmp_setup_nbios(machine).nbios
        /\ lib[p].hsmp_proto_ver = machine.fwver

\* C35 as the specification states it: every entry the discovery of
\* src/nbio.c has assigned holds socket = index / tiles per socket and
\* id = index % tiles per socket, an id in 0 .. tiles per socket - 1.
C35_Original ==
    \A p \in Procs :
        LET nb == lib[p].nb
        IN  \A k \in nb.assigned :
                /\ nb.nbios[k].socket = nb.nbios[k].index \div nb.nbios_per_socket
                /\ nb.nbios[k].id = nb.nbios[k].index % nb.nbios_per_socket
                /\ nb.nbios[k].id \in 0 .. (nb.nbios_per_socket - 1)

\* C39 as the specification states it: while an entry of a table holds a
\* device handle, the PCI access context that owns the handle is alive, in
\* hsmp_data and in the array of src/nbio.c.
C39_Original ==
    \A p \in Procs :
        /\ (\E i \in NbioIdx : lib[p].nbios[i].dev # NullDev) => lib[p].pacc
        /\ (\E k \in DOMAIN lib[p].nb.nbios : lib[p].nb.nbios[k].dev # NullDev) =>
               lib[p].nb.pacc = "live"

\* The narrowest width the links of the platform support: x2 from family 19h
\* on, x8 before.
PlatformMinWidth == IF machine.family >= FAMILY_0x19 THEN HSMP_XGMI_WIDTH_X2 ELSE HSMP_XGMI_WIDTH_X8

\* The call has an enumerated argument outside its range.
BadEnum(p) ==
    LET t == th[p]
    IN  \/ t.op \in {"hsmp_set_data_fabric_pstate", "hsmp_set_nbio_pstate"} /\ t.en = "bad"
        \/ /\ t.op = "hsmp_set_xgmi_width"
           /\ \/ t.min_width < PlatformMinWidth
              \/ t.min_width > t.max_width
              \/ t.min_width > HSMP_XGMI_WIDTH_X16
              \/ t.max_width > HSMP_XGMI_WIDTH_X16

\* The call has passed hsmp_enter: a root caller, a library not disabled,
\* initialized before or by this call, and a supported message id.
PassedEnter(p) ==
    /\ euid[p] = Root /\ th[p].dis0 = 0
    /\ lib[p].initialized = 1
    /\ msg_id_supported(lib[p].hsmp_proto_ver, OpTable[th[p].op].enter)

\* C36 as the specification states it: an operation called with an
\* enumerated argument outside its range returns -1 with errno EINVAL and
\* sends its message to no socket.
C36_Original ==
    \A p \in Procs :
        Returned(p) /\ th[p].op \in EnumOps /\ BadEnum(p) =>
            th[p].ret = -1 /\ th[p].errno = "EINVAL" /\ th[p].sent = 0

\* C36: an operation called with an enumerated argument outside its range
\* returns -1 and sends its message to no socket; errno is EINVAL when the
\* call has passed hsmp_enter, EPERM for a caller that is not root, ENOTSUP
\* for a root caller on a disabled library, and otherwise what the failed
\* initialization set.
C36_EnumRejected ==
    \A p \in Procs :
        Returned(p) /\ th[p].op \in EnumOps /\ BadEnum(p) =>
            /\ th[p].ret = -1 /\ th[p].sent = 0 /\ th[p].applied = {}
            /\ PassedEnter(p) => th[p].errno = "EINVAL"
            /\ euid[p] # Root => th[p].errno = "EPERM"
            /\ euid[p] = Root /\ th[p].dis0 # 0 => th[p].errno = "ENOTSUP"
            /\ th[p].errno \in {"EINVAL", "EPERM", "ENOTSUP", "EIO"}

\* On an initialized library of a family 17h platform, widths x2..x16 have
\* been refused with EINVAL.
C36_Witness ==
    \E p \in Procs :
        /\ Returned(p) /\ th[p].op = "hsmp_set_xgmi_width" /\ th[p].init0 = 1
        /\ machine.family = FAMILY_0x17
        /\ th[p].min_width = HSMP_XGMI_WIDTH_X2 /\ th[p].max_width = HSMP_XGMI_WIDTH_X16
        /\ PassedEnter(p)
        /\ th[p].ret = -1 /\ th[p].errno = "EINVAL" /\ th[p].sent = 0

\* The lines of the record of processor cpu in the file: from its
\* "processor" line up to the next one.
RECURSIVE RecordEnd(_, _)
RecordEnd(lines, i) ==
    IF i > Len(lines) \/ lines[i].key = "processor" THEN i - 1 ELSE RecordEnd(lines, i + 1)

OwnRecord(lines, cpu) ==
    LET s == CHOOSE i \in 1 .. Len(lines) : lines[i] = Line("processor", cpu)
    IN  SubSeq(lines, s, RecordEnd(lines, s + 1))

\* The value of a field of a record, -1 when the record lacks the field.
Field(rec, key) ==
    LET hit == {i \in 1 .. Len(rec) : rec[i].key = key}
    IN  IF hit = {} THEN -1 ELSE rec[CHOOSE i \in hit : \A j \in hit : i <= j].val

\* C37 as the specification states it: when the record of some processor
\* lacks its "physical id" or its "apicid" line the load fails, the call that
\* ran it returning -1 with EINVAL; and an entry of the CPU table is valid only
\* with the socket id and the APIC id of that processor's own record.
C37_Original ==
    \A p \in Procs :
        LET lines == Cpuinfo(machine)
        IN  /\ /\ Returned(p) /\ th[p].scanned
               /\ \E c \in ModelCpus : \/ Field(OwnRecord(lines, c), "physical id") = -1
                                         \/ Field(OwnRecord(lines, c), "apicid") = -1
               => lib[p].initialized = 0 /\ th[p].ret = -1 /\ th[p].errno = "EINVAL"
            /\ \A c \in ModelCpus :
                   lib[p].cpus[c].valid = 1 =>
                       /\ lib[p].cpus[c].socket_id = Field(OwnRecord(lines, c), "physical id")
                       /\ lib[p].cpus[c].apicid = Field(OwnRecord(lines, c), "apicid")

\* C38 as the specification states it: hsmp_ddr_bandwidths returns bits
\* 31..20 of the response word as the maximum bandwidth, bits 19..8 as the
\* utilized bandwidth and bits 7..0 as the percentage, three disjoint fields
\* that put together give the response word again.
C38_Original ==
    [][\A p \in Procs :
          /\ th[p].pc = "unlock" /\ th[p].op = "hsmp_ddr_bandwidths"
          /\ th'[p].pc = "done" /\ th'[p].ret = 0
          => LET w == th[p].resp
                 t == th'[p]
             IN  /\ t.out = w \div 2 ^ 20
                 /\ t.utilized_bw = (w \div 2 ^ 8) % 2 ^ 12
                 /\ t.utilized_pct = w % 2 ^ 8
                 /\ BitOr(t.out * 2 ^ 20, BitOr(t.utilized_bw * 2 ^ 8, t.utilized_pct)) = w]_vars

\* C40 as the specification states it: between the index write and the data
\* access of an indirect register access no other process accesses the same
\* port of the same device.  For the system-management port: a process about
\* to read the data register is the last that wrote the index register.  For
\* the mailbox port, whose accesses are single steps of an exchange: a
\* process in an exchange holds the lock, and no other process is in one.
C40_Original ==
    /\ \A p \in Procs :
          th[p].pc = "smn_data" => mbox[SmnSocket(p)].smn[SmnDev(p)].by = p
    /\ \A p, q \in Procs :
          InMailbox(p) =>
              /\ lockHolder.proc = p
              /\ InMailbox(q) => p = q

====
